---- MODULE Spec2Model ----
(***************************************************************************)
(* The asynchronous thumbnail pipeline of MediaOrganizer                   *)
(* (src/src/ui/gallery.py): ThumbnailRunnable.run on the pool's worker     *)
(* threads, ThumbnailLoader (pending stack, in-flight counter) and         *)
(* GalleryModel (icon_cache) on the coordinating (GUI) thread.             *)
(*                                                                         *)
(* Rows are 0-based as in the code; row r of media_files is the (r+1)-th   *)
(* element of the sequence media_files.  Every request carries a ghost id  *)
(* (its push number) so that the history of one request can be followed;   *)
(* the code's task tuple is (index_row, file_path, file_type,              *)
(* icon_provider).                                                         *)
(***************************************************************************)
EXTENDS Integers, Sequences, FiniteSets, TLC

VARIABLES
    media_files,    \* GalleryModel.media_files: sequence of file paths
    icon_cache,     \* GalleryModel.icon_cache: row -> icon
    viewport,       \* rows whose rectangle meets the buffered viewport
    pending_tasks,  \* ThumbnailLoader.pending_tasks (stack, top = last)
    active_tasks,   \* ThumbnailLoader.active_tasks
    jobs,           \* runnables handed to the thread pool: id -> job
    mainq,          \* queued slot invocations of the coordinating thread
    cache,          \* .thumbnails: file name (md5 of the path) -> image
    cache_dir,      \* whether the .thumbnails directory exists
    nreq,           \* ghost: number of requests pushed so far
    resets,         \* ghost: number of update_data calls so far
    req,            \* ghost: id -> what happened to the request so far
    decoder,        \* a source file under the decoders, and what they made of it
    sources,        \* the content of the source files: path -> revision
    viewer,         \* the ImageViewer window
    library,        \* the media_files table of the index database
    scanner         \* the MediaScanner thread

vars == << media_files, icon_cache, viewport, pending_tasks, active_tasks,
           jobs, mainq, cache, cache_dir, nreq, resets, req, decoder,
           sources, viewer, library, scanner, scanner >>

-----------------------------------------------------------------------------
(* Bounds of the model *)

MaxRequests == 3
MaxResets == 1
ViewRows == 2
MaxSide == 12
MaxFrames == 6
MaxRefilters == 2
MaxRetryRequests == 4
MaxKeyRequests == 2
MaxLiveRequests == 4
MaxRevisions == 1

(* Program constants *)

max_workers == 2
thumb_size == 100
frame_attempts == 5

-----------------------------------------------------------------------------
(* The files on disk and the data sets the window can load *)

DataA == << "/m/a.jpg", "/m/b.mp4", "/m/c.png" >>
DataB == << "/m/c.png" >>
DataSets == { << >>, DataB }
\* a folder whose first file is the video no frame can be read from
DataV == << "/m/b.mp4", "/m/a.jpg", "/m/c.png" >>

ScenarioData == << "/s/00.jpg", "/s/01.jpg", "/s/02.jpg", "/s/03.jpg",
                   "/s/04.jpg", "/s/05.jpg", "/s/06.jpg", "/s/07.jpg",
                   "/s/08.jpg", "/s/09.jpg", "/s/10.jpg" >>
ScenarioRows == 1 .. (Len(ScenarioData) - 1)

Range(s) == { s[i] : i \in DOMAIN s }
AllPaths == Range(DataA) \cup Range(DataB) \cup Range(ScenarioData)

\* scanner.py classifies a file by its extension
FileType(p) == IF p = "/m/b.mp4" THEN "video" ELSE "image"
\* the image files a decoder can read
Decodable(p) == p # "/m/b.mp4"

\* hashlib.md5(file_path.encode('utf-8')).hexdigest()
file_hash(p) ==
    CASE p = "/m/a.jpg" -> "fbb3751ce34db3dbc2e2ad3f8b682ee6"
      [] p = "/m/b.mp4" -> "3f381a5c4f428d30fb2bd9152c9b68c3"
      [] p = "/m/c.png" -> "a838bb4292cbcb46d5d78fc448b77252"
      [] p = "/s/00.jpg" -> "aa8604fdb9ff1763dad36e28eb1cb5e0"
      [] p = "/s/01.jpg" -> "02b10ae3bac9415c517de8774d09916e"
      [] p = "/s/02.jpg" -> "0a6c6407b92daf845db89b5bad30e65a"
      [] p = "/s/03.jpg" -> "8850a2b6d4e7d958aea26dca0381c3cf"
      [] p = "/s/04.jpg" -> "369ff52d3576f00bd19b044b2fd37f71"
      [] p = "/s/05.jpg" -> "784bd7594bfd299b4fb28f010c975cc1"
      [] p = "/s/06.jpg" -> "0e937cb45e50a6a78fa1771597c1913a"
      [] p = "/s/07.jpg" -> "1af77a35b8ae0b896d635379eb3f40ba"
      [] p = "/s/08.jpg" -> "befdb235894f7c85a43576822ba42787"
      [] p = "/s/09.jpg" -> "6dfbb549281d120ea921578a1f5625e2"
      [] p = "/s/10.jpg" -> "5ae47e98c88dca4c6405fb0c10164453"

cache_path(p) == file_hash(p)
CacheFiles == { cache_path(p) : p \in AllPaths }

-----------------------------------------------------------------------------
(* Images and icons *)

\* Every image carries the revision of the source file it was made from
\* (rev; 0 where there is none).

\* QImage(): the null image
NullImage == [null |-> TRUE, src |-> "-", jpeg |-> FALSE, rev |-> 0]
\* a thumbnail decoded from source p, fitted into thumb_size x thumb_size
Thumb(p) == [null |-> FALSE, src |-> p, jpeg |-> FALSE, rev |-> 0]
\* image.save(cache_path, "JPG", quality=80): the lossy encoding of an image
JpegEncoded(img) == [img EXCEPT !.jpeg = TRUE]
NoEntry == [null |-> TRUE, src |-> "absent", jpeg |-> FALSE, rev |-> 0]
\* a cache file opened for writing (truncated) and not yet written out
Partial == [null |-> TRUE, src |-> "partial", jpeg |-> FALSE, rev |-> 0]
\* a cache file whose content no reader can decode
Corrupt == [null |-> TRUE, src |-> "corrupt", jpeg |-> FALSE, rev |-> 0]
\* what a decoder that tolerates a cut-off file makes of one
Damaged == [null |-> FALSE, src |-> "damaged", jpeg |-> TRUE, rev |-> 0]

LoadingIcon == [kind |-> "loading", src |-> "-", jpeg |-> FALSE]
ThumbIcon(img) == [kind |-> "thumb", src |-> img.src, jpeg |-> img.jpeg]
FileIcon(p) == [kind |-> "file", src |-> p, jpeg |-> FALSE]
\* Python's None
NoIcon == [kind |-> "none", src |-> "-", jpeg |-> FALSE]

-----------------------------------------------------------------------------
(* GalleryModel / GalleryView helpers *)

rowCount(files) == Len(files)
RowPath(files, row) == files[row + 1]
Rows(files) == 0 .. (rowCount(files) - 1)

Put(f, k, v) == [x \in (DOMAIN f) \cup {k} |-> IF x = k THEN v ELSE f[x]]
Remove(f, k) == [x \in (DOMAIN f) \ {k} |-> f[x]]
EmptyMap == [x \in {} |-> 0]

\* GalleryView.is_row_visible: the index is valid and the row's rectangle
\* intersects the buffered viewport
is_row_visible(files, view, row) == row < rowCount(files) /\ row \in view

\* the windows of ViewRows consecutive rows the view can be scrolled to
Windows(files) ==
    IF rowCount(files) <= ViewRows THEN { Rows(files) }
    ELSE { top .. (top + ViewRows - 1) : top \in 0 .. (rowCount(files) - ViewRows) }

-----------------------------------------------------------------------------
(* ThumbnailLoader.  The handlers of the coordinating thread work on a     *)
(* record S of the fields they read and write:                             *)
(*   files, view (read only), pending, active, icons, jobs, req.           *)
(* req is the ghost history of every request: how often it was popped by   *)
(* schedule (pops), announced by task_canceled (cancels), handed to        *)
(* start_task (starts) and removed by cancel_pending_tasks (cleared);      *)
(* what the visibility checker answered when it was popped (seen); the     *)
(* newer and the older requests that were pending at that moment; and the  *)
(* number of resets before it was made (epoch).                            *)
(* A runnable carries its place in the order of dispatch (ord), and as     *)
(* ghosts what its cache lookup found (saw), whether a complete entry for  *)
(* its path was stored when run() began (late), whether the cache          *)
(* directory was deleted while it ran (wiped); fd is the state of the      *)
(* cache file it has open for writing.                                     *)

NewRequest(task) ==
    [row |-> task.row, epoch |-> resets, pops |-> 0, cancels |-> 0,
     starts |-> 0, cleared |-> 0, seen |-> TRUE, newer |-> {}, older |-> {}]

Started(r) == { id \in DOMAIN r : r[id].starts > 0 }
PendingIds(stack) == { stack[i].id : i \in DOMAIN stack }

\* ThumbnailRunnable.__init__: a runnable not yet picked up by a pool thread
NewRunnable(task, ord) ==
    [row |-> task.row, path |-> task.path, type |-> task.type,
     pc |-> "queued", image |-> NullImage, hit |-> FALSE,
     emitted |-> 0, saved |-> 0, ord |-> ord,
     saw |-> "-", late |-> FALSE, wiped |-> FALSE, fd |-> "none"]

\* GalleryModel.on_task_canceled (direct connection: runs inside the emit)
on_task_canceled(icons, row) ==
    IF row \in DOMAIN icons THEN Remove(icons, row) ELSE icons

\* (mutant) a request whose entry is in the cache is not counted
start_task_cached_uncounted(S, task) ==
    [S EXCEPT !.active =
                  IF cache_dir /\ ~cache[file_hash(task.path)].null
                  THEN S.active ELSE S.active + 1,
              !.jobs = Put(S.jobs, task.id,
                           NewRunnable(task, Cardinality(Started(S.req)) + 1)),
              !.req = [S.req EXCEPT ![task.id].starts = @ + 1]]

\* ThumbnailLoader.start_task
start_task(S, task) ==
    [S EXCEPT !.active = S.active + 1,
              !.jobs = Put(S.jobs, task.id,
                           NewRunnable(task, Cardinality(Started(S.req)) + 1)),
              !.req = [S.req EXCEPT ![task.id].starts = @ + 1]]

\* (mutant) the drop without its "continue": the task is started as well
drop_task_and_start(S, task) ==
    start_task([S EXCEPT !.req = [S.req EXCEPT ![task.id].cancels = @ + 1],
                         !.icons = on_task_canceled(S.icons, task.row)], task)

\* schedule, lines 167-171: task_canceled.emit(index_row); continue
drop_task(S, task) ==
    [S EXCEPT !.req = [S.req EXCEPT ![task.id].cancels = @ + 1],
              !.icons = on_task_canceled(S.icons, task.row)]

\* (mutant) an off-by-one loop condition
has_capacity_off_by_one(S) == S.active <= max_workers

\* schedule, line 160: the loop condition
has_capacity(S) == S.active < max_workers

\* (mutant) pop(0): the oldest request first
pop_index_first(stack) == 1

\* schedule, line 162: list.pop() takes the last element
pop_index(stack) == Len(stack)

\* (mutant) the task is read but left on the stack
PeekAt(stack, i) == stack

\* schedule, line 162: list.pop() removes the element it returns
RemoveAt(stack, i) == SubSeq(stack, 1, i - 1) \o SubSeq(stack, i + 1, Len(stack))

\* one iteration of the loop of schedule
schedule_step(S) ==
    LET i == pop_index(S.pending)
        task == S.pending[i]
        rest == RemoveAt(S.pending, i)
        S1 == [S EXCEPT !.pending = rest,
                        !.req = [S.req EXCEPT
                            ![task.id].pops = @ + 1,
                            ![task.id].seen =
                                is_row_visible(S.files, S.view, task.row),
                            ![task.id].newer =
                                { n \in PendingIds(rest) : n > task.id },
                            ![task.id].older =
                                { n \in PendingIds(rest) : n < task.id }]]
    IN  IF ~is_row_visible(S1.files, S1.view, task.row)
        THEN drop_task(S1, task)
        ELSE start_task(S1, task)

RECURSIVE schedule(_)
\* ThumbnailLoader.schedule
schedule(S) ==
    IF has_capacity(S) /\ S.pending # << >>
    THEN schedule(schedule_step(S))
    ELSE S

\* (mutant) insert(0, task): the new request goes under the older ones
load_thumbnail_bottom(S, task) ==
    schedule([S EXCEPT !.pending = << task >> \o S.pending,
                       !.req = Put(S.req, task.id, NewRequest(task))])

\* (mutant) the request is pushed and admission is left to the next completion
load_thumbnail_unscheduled(S, task) ==
    [S EXCEPT !.pending = Append(S.pending, task),
              !.req = Put(S.req, task.id, NewRequest(task))]

\* ThumbnailLoader.load_thumbnail
load_thumbnail(S, task) ==
    schedule([S EXCEPT !.pending = Append(S.pending, task),
                       !.req = Put(S.req, task.id, NewRequest(task))])

\* (mutant) the slot frees the worker and does not run admission again
on_thumbnail_finished_only_counts(S) == [S EXCEPT !.active = S.active - 1]

\* ThumbnailLoader._on_thumbnail_finished
on_thumbnail_finished(S) ==
    schedule([S EXCEPT !.active = S.active - 1])

\* (mutant) the bulk clear announces every request it removes
cancel_pending_tasks_notifying(S) ==
    [S EXCEPT !.pending = << >>,
              !.req = [id \in DOMAIN S.req |->
                          IF id \in PendingIds(S.pending)
                          THEN [S.req[id] EXCEPT !.cleared = @ + 1,
                                                 !.cancels = @ + 1]
                          ELSE S.req[id]],
              !.icons = [r \in (DOMAIN S.icons) \
                               { S.pending[i].row : i \in DOMAIN S.pending }
                         |-> S.icons[r]]]

\* (mutant) the bulk clear also forgets the runnables that are still running
cancel_pending_tasks_resets_count(S) ==
    [S EXCEPT !.pending = << >>,
              !.active = 0,
              !.req = [id \in DOMAIN S.req |->
                          IF id \in PendingIds(S.pending)
                          THEN [S.req[id] EXCEPT !.cleared = @ + 1]
                          ELSE S.req[id]]]

\* ThumbnailLoader.cancel_pending_tasks
cancel_pending_tasks(S) ==
    [S EXCEPT !.pending = << >>,
              !.req = [id \in DOMAIN S.req |->
                          IF id \in PendingIds(S.pending)
                          THEN [S.req[id] EXCEPT !.cleared = @ + 1]
                          ELSE S.req[id]]]

\* on_thumbnail_loaded, lines 279-285: the rows for which dataChanged is
\* emitted
dataChanged(files, row, image) ==
    LET icon == IF ~image.null THEN ThumbIcon(image)
                ELSE IF row < Len(files) THEN FileIcon(RowPath(files, row))
                ELSE NoIcon
    IN  IF icon # NoIcon /\ row < rowCount(files) THEN {row} ELSE {}

\* (mutant) the result goes to the first row that shows the placeholder
on_thumbnail_loaded_by_arrival(files, icons, row, image) ==
    LET loading == { r \in DOMAIN icons : icons[r] = LoadingIcon }
        first == IF loading = {} THEN row
                 ELSE CHOOSE r \in loading : \A q \in loading : r <= q
    IN  IF image.null THEN Put(icons, first, FileIcon(RowPath(files, first)))
        ELSE Put(icons, first, ThumbIcon(image))

\* (mutant) the result is stored without the check against rowCount
on_thumbnail_loaded_unchecked(files, icons, row, image) ==
    LET icon == IF ~image.null THEN ThumbIcon(image)
                ELSE IF row < Len(files) THEN FileIcon(RowPath(files, row))
                ELSE NoIcon
    IN  IF icon # NoIcon THEN Put(icons, row, icon) ELSE icons

\* GalleryModel.on_thumbnail_loaded
on_thumbnail_loaded(files, icons, row, image) ==
    LET icon == IF ~image.null THEN ThumbIcon(image)
                ELSE IF row < Len(files) THEN FileIcon(RowPath(files, row))
                ELSE NoIcon
    IN  IF icon # NoIcon /\ row < rowCount(files)
        THEN Put(icons, row, icon)
        ELSE icons

\* the state the handlers of the coordinating thread start from
Here ==
    [files |-> media_files, view |-> viewport, pending |-> pending_tasks,
     active |-> active_tasks, icons |-> icon_cache, jobs |-> jobs,
     req |-> req]

\* ... and what they leave
Becomes(S) ==
    /\ pending_tasks' = S.pending
    /\ active_tasks' = S.active
    /\ icon_cache' = S.icons
    /\ jobs' = S.jobs
    /\ req' = S.req
    /\ media_files' = S.files
    /\ viewport' = S.view

-----------------------------------------------------------------------------
(* The handlers of the coordinating thread *)

\* (mutant) the row is requested without being marked as loading
data_decoration_unmarked(S, row, type, id) ==
    LET path == RowPath(S.files, row)
        task == [id |-> id, row |-> row, path |-> path, type |-> type]
    IN  load_thumbnail(S, task)

\* GalleryModel.data(index, DecorationRole) for a row without a cached icon:
\* mark the row as loading and request its thumbnail
data_decoration(S, row, type, id) ==
    LET path == RowPath(S.files, row)
        task == [id |-> id, row |-> row, path |-> path, type |-> type]
    IN  load_thumbnail([S EXCEPT !.icons = Put(S.icons, row, LoadingIcon)], task)

\* (mutant) the reset keeps the icons of the data set shown before
update_data_keeps_icons(S, files, view) ==
    [cancel_pending_tasks(S) EXCEPT !.files = files, !.view = view]

\* GalleryModel.update_data
update_data(S, files, view) ==
    [cancel_pending_tasks(S) EXCEPT !.files = files, !.icons = EmptyMap,
                                    !.view = view]

\* the view paints a row of the viewport: the delegate asks for its
\* decoration; a row with a cached icon changes nothing
PaintAs(row, type) ==
    /\ row \in Rows(media_files)
    /\ row \in viewport
    /\ row \notin DOMAIN icon_cache
    /\ Becomes(data_decoration(Here, row, type, nreq + 1))
    /\ nreq' = nreq + 1
    /\ UNCHANGED << decoder, sources, viewer, library, scanner, mainq, cache,
                    cache_dir, resets >>

\* the index lists a file with the kind its extension had when it was scanned
Paint(row) == PaintAs(row, FileType(RowPath(media_files, row)))

Render(row) == nreq < MaxRequests /\ Paint(row)

\* the user scrolls the view
Scroll ==
    /\ \E view \in Windows(media_files) \ {viewport} : viewport' = view
    /\ UNCHANGED << decoder, sources, viewer, library, scanner, media_files,
                    icon_cache, pending_tasks, active_tasks, jobs, mainq,
                    cache, cache_dir, nreq, resets, req >>

\* the window loads another folder or applies a filter
UpdateData ==
    /\ resets < MaxResets
    /\ \E files \in DataSets : \E view \in Windows(files) :
          Becomes(update_data(Here, files, view))
    /\ resets' = resets + 1
    /\ UNCHANGED << decoder, sources, viewer, library, scanner, mainq, cache,
                    cache_dir, nreq >>

\* the queued call of ThumbnailLoader._on_thumbnail_finished (connected first)
HandleFinished ==
    /\ mainq # << >>
    /\ Head(mainq).slot = "_on_thumbnail_finished"
    /\ Becomes(on_thumbnail_finished(Here))
    /\ mainq' = Tail(mainq)
    /\ UNCHANGED << decoder, sources, viewer, library, scanner, cache, cache_dir,
                    nreq, resets >>

\* (mutant) an event queue that hands out the newest call first
HandleLoadedNewest ==
    /\ mainq # << >>
    /\ Head(mainq).slot = "on_thumbnail_loaded"
    /\ LET last == CHOOSE i \in DOMAIN mainq :
                       /\ mainq[i].slot = "on_thumbnail_loaded"
                       /\ \A j \in DOMAIN mainq :
                             mainq[j].slot = "on_thumbnail_loaded" => j <= i
       IN  /\ icon_cache' = on_thumbnail_loaded(media_files, icon_cache,
                                                mainq[last].row, mainq[last].image)
           /\ mainq' = RemoveAt(mainq, last)
    /\ UNCHANGED << decoder, sources, viewer, library, scanner, media_files, viewport,
                    pending_tasks, active_tasks, jobs, cache, cache_dir,
                    nreq, resets, req >>

\* the queued call of GalleryModel.on_thumbnail_loaded (connected second)
HandleLoaded ==
    /\ mainq # << >>
    /\ Head(mainq).slot = "on_thumbnail_loaded"
    /\ icon_cache' = on_thumbnail_loaded(media_files, icon_cache,
                                         Head(mainq).row, Head(mainq).image)
    /\ mainq' = Tail(mainq)
    /\ UNCHANGED << decoder, sources, viewer, library, scanner, media_files, viewport,
                    pending_tasks, active_tasks, jobs, cache, cache_dir,
                    nreq, resets, req >>

-----------------------------------------------------------------------------
(* ThumbnailRunnable.run on a thread of the pool.  pc of a runnable:       *)
(*   queued -> (hit)  emit -> emit2 -> gone                                *)
(*          -> (miss) save -> emit -> emit2 -> gone                        *)
(* A runnable whose run() has returned is deleted by the pool.             *)

Running(js) == { id \in DOMAIN js : js[id].pc # "queued" }

\* (mutant) a pool without a thread limit
pool_unlimited(js) == TRUE

\* line 136: thread_pool.setMaxThreadCount(self.max_workers); a runnable
\* given to QThreadPool.start waits in the pool's queue while every thread
\* is busy
pool_has_thread(js) == Cardinality(Running(js)) < max_workers

\* what os.path.exists and the reader find under a cache file name
EntryKind(dir, entry) ==
    IF ~dir \/ entry = NoEntry THEN "absent"
    ELSE IF entry = Partial THEN "partial"
    ELSE IF entry = Corrupt THEN "corrupt"
    ELSE "complete"

\* lines 45-48: the entry read through QImageReader; a missing or
\* undecodable entry gives the null image
read_cache(dir, files, path) ==
    IF dir /\ files[cache_path(path)] # NoEntry
    THEN files[cache_path(path)]
    ELSE NullImage

\* line 47: reader.read() on what it was given: a complete entry decodes to
\* the stored image, a cut-off one to nothing or to a damaged image
decodings(entry) ==
    IF entry = Partial THEN {NullImage, Damaged}
    ELSE IF entry.null THEN {NullImage}
    ELSE {entry}

\* (mutant) the makedirs calls left out
makedirs_never(exists, ok) == exists

\* lines 34-38 and 114-118: if not os.path.exists(cache_dir): os.makedirs,
\* whose failure is ignored
makedirs(exists, ok) == exists \/ ok

\* (mutant) the isNull test forgotten: whatever the reader gave is emitted
is_hit_if_exists(exists, image) == exists

\* (mutant) an entry older than its source is not used
is_hit_if_fresh(exists, image) ==
    exists /\ ~image.null /\ image.rev = sources[image.src]

\* lines 45 and 48: the entry exists and decodes
is_hit(exists, image) == exists /\ ~image.null

\* (mutant) KeepAspectRatio forgotten: the bounding box itself
scaled_ignoring_aspect(w, h, bw, bh) == << bw, bh >>

\* line 60: original_size.scaled(100, 100, KeepAspectRatio).  QSize.scaled
\* computes in integers, its divisions truncate: the width that goes with
\* the full height is tried first, and kept if it fits
scaled(w, h, bw, bh) ==
    IF w = 0 \/ h = 0 THEN << bw, bh >>
    ELSE LET rw == (bh * w) \div h
         IN  IF rw <= bw THEN << rw, bh >> ELSE << bw, (bw * h) \div w >>

\* line 58: QSize.isValid; a reader that cannot tell the size gives (-1, -1)
size_valid(size) == size[1] >= 0 /\ size[2] >= 0

\* what cap.read() can do: give a frame ("ok"), report failure (ret False),
\* give None, give a frame of size 0, or raise
FrameKinds == {"ok", "fail", "null", "empty", "raise"}
\* a read past the last frame of the container fails
FrameAt(frames, i) == IF i <= Len(frames) THEN frames[i] ELSE "fail"

\* (mutant) the size test forgotten: an array of size 0 passes
valid_frame_any_array(f) == f \in {"ok", "empty"}

\* line 83: ret and frame is not None and frame.size > 0
valid_frame(f) == f = "ok"

\* (mutant) one attempt too many
more_attempts_off_by_one(i) == i <= frame_attempts

\* line 81: for i in range(5); i counts the reads made so far
more_attempts(i) == i < frame_attempts

RECURSIVE read_frames(_, _)
\* lines 81-100 and 108: the frames are read in order until one is valid,
\* the attempts are used up, or a call raises (caught at line 108)
read_frames(frames, i) ==
    IF ~more_attempts(i)
    THEN [null |-> TRUE, reads |-> i, caught |-> FALSE]
    ELSE LET f == FrameAt(frames, i + 1)
         IN  IF f = "raise"
             THEN [null |-> TRUE, reads |-> i + 1, caught |-> TRUE]
             ELSE IF valid_frame(f)
             THEN [null |-> FALSE, reads |-> i + 1, caught |-> FALSE]
             ELSE read_frames(frames, i + 1)

\* lines 65-109: the video branch; without OpenCV, or when the container
\* cannot be opened, no frame is read
extract_frame(cv2, opens, frames) ==
    IF cv2 /\ opens THEN read_frames(frames, 0)
    ELSE [null |-> TRUE, reads |-> 0, caught |-> FALSE]

\* the frames of the video files on disk: the five leading frames of
\* /m/b.mp4 are unreadable
VideoFrames(p) == << "fail", "null", "empty", "fail", "null", "ok" >>

\* the source files as they are when the program starts
Originals == [p \in AllPaths |-> 0]

\* the thumbnail decoded from the source p as it is now
Decoded(p) == [Thumb(p) EXCEPT !.rev = sources[p]]

\* lines 53-109: the image decoder or the video frame extractor
generate(path, type) ==
    IF type = "image"
    THEN IF Decodable(path) THEN Decoded(path) ELSE NullImage
    ELSE IF type = "video"
    THEN IF extract_frame(TRUE, TRUE, VideoFrames(path)).null
         THEN NullImage ELSE Decoded(path)
    ELSE NullImage

\* (mutant) the generated image is emitted without being written
after_lookup_no_save(hit) == "emit"

\* lines 48-50 and 109-112: a decoded entry is emitted at once and run()
\* returns; otherwise the generated image goes to the cache write
after_lookup(hit) == IF hit THEN "emit" ELSE "save"

\* (mutant) the cache hit without its "return": run() goes on to the end
after_emit_fall_through(job) == IF job.hit THEN "save" ELSE "done"

\* lines 50 and 122: nothing follows the emit
after_emit(job) == "done"

\* lines 44-109 once the reader has answered: a decoded entry is the
\* result, anything else sends the job to the decoders
after_read(job, kind, cached) ==
    LET hit == is_hit(kind # "absent", cached)
    IN  [job EXCEPT !.image = IF hit THEN cached
                              ELSE generate(job.path, job.type),
                    !.hit = hit,
                    !.saw = kind,
                    !.pc = after_lookup(hit)]

Advance(js, id, pc) ==
    IF pc = "done" THEN Remove(js, id) ELSE [js EXCEPT ![id].pc = pc]

\* line 112: only a generated, non-null image is written
wants_save(image) == ~image.null

\* (mutant) a save that failed takes the image with it
image_lost_on_failed_save(image, stored) ==
    IF stored THEN image ELSE NullImage

\* lines 119-122: image.save tells a failure by its return value, which is
\* not looked at; the image goes on to the emit as it was generated
image_after_save(image, stored) == image

\* A pool thread takes the runnable and runs lines 29-109: create the cache
\* directory if it is missing (a failure is ignored), try the cache, and on
\* a miss generate from the source (the decoders read the source file only).
\* disk is the set of outcomes a file system call can have.
BeginOn(id, disk) ==
    /\ id \in DOMAIN jobs
    /\ jobs[id].pc = "queued"
    /\ pool_has_thread(jobs)
    /\ \E made \in disk : cache_dir' = makedirs(cache_dir, made)
    /\ LET kind == EntryKind(cache_dir', cache[cache_path(jobs[id].path)])
       IN  \E cached \in decodings(read_cache(cache_dir', cache, jobs[id].path)) :
              jobs' = [jobs EXCEPT ![id] =
                          after_read([@ EXCEPT !.late = (kind = "complete")],
                                     kind, cached)]
    /\ UNCHANGED << decoder, sources, viewer, library, scanner, media_files,
                    icon_cache, viewport, pending_tasks, active_tasks, mainq,
                    cache, nreq, resets, req >>

\* lines 111-119: write the cache entry; the directory creation and the
\* write itself may fail, which is not reported
SaveOn(id, disk) ==
    /\ id \in DOMAIN jobs
    /\ jobs[id].pc = "save"
    /\ IF wants_save(jobs[id].image)
       THEN \E made \in disk : \E written \in disk :
              /\ cache_dir' = makedirs(cache_dir, made)
              /\ cache' = IF cache_dir' /\ written
                          THEN [cache EXCEPT ![cache_path(jobs[id].path)] =
                                                JpegEncoded(jobs[id].image)]
                          ELSE cache
              /\ jobs' = [jobs EXCEPT
                    ![id].saved = @ + 1,
                    ![id].image = image_after_save(@, cache_dir' /\ written),
                    ![id].pc = "emit"]
       ELSE /\ jobs' = [jobs EXCEPT ![id].pc = "emit"]
            /\ UNCHANGED << cache, cache_dir >>
    /\ UNCHANGED << decoder, sources, viewer, library, scanner, media_files,
                    icon_cache, viewport, pending_tasks, active_tasks, mainq,
                    nreq, resets, req >>

\* what a file system call can do: succeed (TRUE) or fail (FALSE)
Disk == BOOLEAN
HealthyDisk == {TRUE}

Begin(id) == BeginOn(id, Disk)
Save(id) == SaveOn(id, Disk)

\* (mutant) the display layer connected before the loader
connections_display_first == << "on_thumbnail_loaded", "_on_thumbnail_finished" >>

\* the slots connected to thumbnail_loaded, in the order of their connect
\* calls: line 145 in ThumbnailLoader.__init__, then line 213 in
\* GalleryModel.__init__, which creates the loader first (line 210)
connections == << "_on_thumbnail_finished", "on_thumbnail_loaded" >>

Call(slot, id, job) ==
    [slot |-> slot, id |-> id, row |-> job.row, image |-> job.image]

\* (mutant) a direct connection: the worker thread runs the slot itself
EmitFinishedDirect(id) ==
    /\ id \in DOMAIN jobs
    /\ jobs[id].pc = "emit"
    /\ Becomes(on_thumbnail_finished(
          [Here EXCEPT !.jobs = [jobs EXCEPT ![id].emitted = @ + 1,
                                             ![id].pc = "emit2"]]))
    /\ UNCHANGED << decoder, sources, viewer, library, scanner, mainq, cache,
                    cache_dir, nreq, resets >>

\* lines 49 and 122: result_signal.emit(index_row, image) from the worker
\* thread posts one queued call per connected slot, in connection order:
\* first ThumbnailLoader._on_thumbnail_finished (connected at line 145)
EmitFinished(id) ==
    /\ id \in DOMAIN jobs
    /\ jobs[id].pc = "emit"
    /\ mainq' = Append(mainq, Call(connections[1], id, jobs[id]))
    /\ jobs' = [jobs EXCEPT ![id].emitted = @ + 1, ![id].pc = "emit2"]
    /\ UNCHANGED << decoder, sources, viewer, library, scanner, media_files,
                    icon_cache, viewport, pending_tasks, active_tasks, cache,
                    cache_dir, nreq, resets, req >>

\* ... then GalleryModel.on_thumbnail_loaded (connected at line 213)
EmitLoaded(id) ==
    /\ id \in DOMAIN jobs
    /\ jobs[id].pc = "emit2"
    /\ mainq' = Append(mainq, Call(connections[2], id, jobs[id]))
    /\ jobs' = Advance(jobs, id, after_emit(jobs[id]))
    /\ UNCHANGED << decoder, sources, viewer, library, scanner, media_files,
                    icon_cache, viewport, pending_tasks, active_tasks, cache,
                    cache_dir, nreq, resets, req >>

-----------------------------------------------------------------------------
(* The generation step of run() (lines 52-122) on one source file, whatever *)
(* the file holds: decoder is the source (its kind, the size an image      *)
(* reader reports, the frames a video capture yields, whether OpenCV is    *)
(* installed and opens the container) and what run() made of it (the       *)
(* target size handed to the reader, whether the image is null, the frames *)
(* read, whether an exception was caught, the calls of image.save and the  *)
(* emits).                                                                 *)

\* no ImageViewer window is open
NoViewer ==
    [media_list |-> << >>, current_index |-> 0, is_slideshow_active |-> FALSE,
     title |-> "-", pixmap |-> "-", op |-> "none", before |-> 0]
\* the scanner thread was not started
NoScanner ==
    [pc |-> "none", is_running |-> TRUE, folders_to_scan |-> << >>,
     batch_size |-> 0, folder |-> 0, root |-> 0, file |-> 0,
     batch_buffer |-> << >>, total_files |-> 0,
     at_stop |-> "-", late |-> 0, finished |-> 0]
\* the index database is not in use
NoLibrary ==
    [os |-> "-", table |-> {}, op |-> "none", folder |-> << >>,
     before |-> {}, deleted_count |-> 0,
     rows |-> << >>, arg |-> << >>, was |-> << >>, returned |-> 0]

Idle ==
    [pc |-> "idle", kind |-> "none", size |-> << 0, 0 >>, frames |-> << >>,
     cv2 |-> TRUE, opens |-> TRUE, target |-> << 0, 0 >>, null |-> TRUE,
     reads |-> 0, caught |-> FALSE, saves |-> 0, emitted |-> 0]

Sides == (1 .. MaxSide) \cup {75, 99, 100, 101, 200, 201, 3000, 4000}
SourceSizes == { << 0 - 1, 0 - 1 >> } \cup (Sides \X Sides)
SourceFrames == UNION { [1 .. n -> FrameKinds] : n \in 0 .. MaxFrames }

ImageSource(size) == [Idle EXCEPT !.pc = "source", !.kind = "image", !.size = size]
VideoSource(cv2, opens, frames) ==
    [Idle EXCEPT !.pc = "source", !.kind = "video", !.cv2 = cv2,
                 !.opens = opens, !.frames = frames]

\* lines 111-122 after a generation: save a non-null image, emit once
Finished(d) ==
    [d EXCEPT !.pc = "done",
              !.saves = IF wants_save(d) THEN 1 ELSE 0,
              !.emitted = 1]

\* lines 53-62: the image branch; reader.read() may fail on the content
GenerateImage ==
    /\ decoder.pc = "source"
    /\ decoder.kind = "image"
    /\ IF size_valid(decoder.size)
       THEN \E failed \in BOOLEAN :
              decoder' = Finished([decoder EXCEPT
                  !.target = scaled(decoder.size[1], decoder.size[2],
                                    thumb_size, thumb_size),
                  !.null = failed])
       ELSE decoder' = Finished(decoder)
    /\ UNCHANGED << sources, viewer, library, scanner, media_files, icon_cache,
                    viewport, pending_tasks, active_tasks, jobs, mainq,
                    cache, cache_dir, nreq, resets, req >>

\* lines 64-109: the video branch
GenerateVideo ==
    /\ decoder.pc = "source"
    /\ decoder.kind = "video"
    /\ LET r == extract_frame(decoder.cv2, decoder.opens, decoder.frames)
       IN  decoder' = Finished([decoder EXCEPT !.null = r.null,
                                               !.reads = r.reads,
                                               !.caught = r.caught])
    /\ UNCHANGED << sources, viewer, library, scanner, media_files, icon_cache,
                    viewport, pending_tasks, active_tasks, jobs, mainq,
                    cache, cache_dir, nreq, resets, req >>

InitGenerate ==
    /\ media_files = << >>
    /\ icon_cache = EmptyMap
    /\ viewport = {}
    /\ pending_tasks = << >>
    /\ active_tasks = 0
    /\ jobs = EmptyMap
    /\ mainq = << >>
    /\ cache = [f \in CacheFiles |-> NoEntry]
    /\ cache_dir = FALSE
    /\ nreq = 0
    /\ resets = 0
    /\ req = EmptyMap
    /\ sources = Originals
    /\ viewer = NoViewer
    /\ scanner = NoScanner
    /\ library = NoLibrary
    /\ decoder \in { ImageSource(size) : size \in SourceSizes } \cup
                   { VideoSource(c, o, f) :
                        c \in BOOLEAN, o \in BOOLEAN, f \in SourceFrames }

NextGenerate == GenerateImage \/ GenerateVideo

SpecGenerate == InitGenerate /\ [][NextGenerate]_vars

-----------------------------------------------------------------------------
(* run() step by step, as the threads of the pool, the file system and the *)
(* user interleave it.  pc of a runnable:                                  *)
(*   queued -> lookup -> (hit)  emit -> emit2 -> gone                      *)
(*                    -> (miss) save -> write -> emit -> emit2 -> gone     *)
(* image.save(cache_path, "JPG") writes through a QFile on the cache file  *)
(* itself: opening it truncates the file, the encoded image is written out *)
(* afterwards.  The files of a deleted directory stay open for the jobs    *)
(* that write them, and are gone when they are closed.                     *)

\* (mutant) a file opened for appending: what is already there stays
written_entry_appended(entry, image) ==
    IF entry = Partial THEN JpegEncoded(image) ELSE Corrupt

\* line 119: the cache file once the encoded image is written out
written_entry(entry, image) == JpegEncoded(image)

\* lines 29-42: a pool thread takes the runnable; the cache directory is
\* created if it is missing
StartRun(id) ==
    /\ id \in DOMAIN jobs
    /\ jobs[id].pc = "queued"
    /\ pool_has_thread(jobs)
    /\ cache_dir' = makedirs(cache_dir, TRUE)
    /\ jobs' = [jobs EXCEPT
          ![id].pc = "lookup",
          ![id].late = (EntryKind(cache_dir, cache[cache_path(jobs[id].path)])
                            = "complete")]
    /\ UNCHANGED << decoder, sources, viewer, library, scanner, media_files,
                    icon_cache, viewport, pending_tasks, active_tasks, mainq,
                    cache, nreq, resets, req >>

\* lines 44-109: try the cache, and on a miss generate from the source
Lookup(id) ==
    /\ id \in DOMAIN jobs
    /\ jobs[id].pc = "lookup"
    /\ LET kind == EntryKind(cache_dir, cache[cache_path(jobs[id].path)])
       IN  \E cached \in decodings(read_cache(cache_dir, cache, jobs[id].path)) :
              jobs' = [jobs EXCEPT ![id] = after_read(@, kind, cached)]
    /\ UNCHANGED << decoder, sources, viewer, library, scanner, media_files,
                    icon_cache, viewport, pending_tasks, active_tasks, mainq,
                    cache, cache_dir, nreq, resets, req >>

\* lines 111-119: a non-null image is saved: the directory is created again
\* if it is missing, and image.save opens the cache file, which cuts it off
\* (without the directory the file cannot be opened and nothing is written)
SaveOpen(id) ==
    /\ id \in DOMAIN jobs
    /\ jobs[id].pc = "save"
    /\ IF wants_save(jobs[id].image)
       THEN /\ cache_dir' = makedirs(cache_dir, TRUE)
            /\ cache' = IF cache_dir'
                        THEN [cache EXCEPT ![cache_path(jobs[id].path)] = Partial]
                        ELSE cache
            /\ jobs' = [jobs EXCEPT ![id].saved = @ + 1,
                                    ![id].fd = IF cache_dir' THEN "open" ELSE "none",
                                    ![id].pc = "write"]
       ELSE /\ jobs' = [jobs EXCEPT ![id].pc = "emit"]
            /\ UNCHANGED << cache, cache_dir >>
    /\ UNCHANGED << decoder, sources, viewer, library, scanner, media_files,
                    icon_cache, viewport, pending_tasks, active_tasks, mainq,
                    nreq, resets, req >>

\* line 119, the rest of image.save: the encoded image is written out and
\* the file closed
SaveWrite(id) ==
    /\ id \in DOMAIN jobs
    /\ jobs[id].pc = "write"
    /\ cache' = IF jobs[id].fd = "open"
                THEN [cache EXCEPT ![cache_path(jobs[id].path)] =
                                      written_entry(@, jobs[id].image)]
                ELSE cache
    /\ jobs' = [jobs EXCEPT
          ![id].fd = "none",
          ![id].image = image_after_save(@, jobs[id].fd = "open"),
          ![id].pc = "emit"]
    /\ UNCHANGED << decoder, sources, viewer, library, scanner, media_files,
                    icon_cache, viewport, pending_tasks, active_tasks, mainq,
                    cache_dir, nreq, resets, req >>

\* the user deletes the .thumbnails directory with everything in it
DeleteCacheDir ==
    /\ cache_dir
    /\ cache_dir' = FALSE
    /\ cache' = [f \in CacheFiles |-> NoEntry]
    /\ jobs' = [id \in DOMAIN jobs |->
                  IF jobs[id].pc = "queued" THEN jobs[id]
                  ELSE [jobs[id] EXCEPT
                           !.wiped = TRUE,
                           !.fd = IF @ = "open" THEN "unlinked" ELSE @]]
    /\ UNCHANGED << decoder, sources, viewer, library, scanner, media_files,
                    icon_cache, viewport, pending_tasks, active_tasks, mainq,
                    nreq, resets, req >>

\* the window applies its filters again and gets the same files
RefilterUpTo(n) ==
    /\ resets < n
    /\ Becomes(update_data(Here, media_files, viewport))
    /\ resets' = resets + 1
    /\ UNCHANGED << decoder, sources, viewer, library, scanner, mainq, cache,
                    cache_dir, nreq >>

Refilter == RefilterUpTo(MaxRefilters)

\* a window showing DataB; the cache directory of an earlier run may be
\* there, and in it a file for /m/c.png, which may not decode
InitCache ==
    /\ media_files = DataB
    /\ icon_cache = EmptyMap
    /\ viewport = Rows(DataB)
    /\ pending_tasks = << >>
    /\ active_tasks = 0
    /\ jobs = EmptyMap
    /\ mainq = << >>
    /\ \E dir \in BOOLEAN :
         \E entry \in (IF dir
                       THEN {NoEntry, Corrupt, JpegEncoded(Thumb("/m/c.png"))}
                       ELSE {NoEntry}) :
            /\ cache_dir = dir
            /\ cache = [f \in CacheFiles |->
                          IF f = cache_path("/m/c.png") THEN entry ELSE NoEntry]
    /\ nreq = 0
    /\ resets = 0
    /\ req = EmptyMap
    /\ decoder = Idle
    /\ library = NoLibrary
    /\ viewer = NoViewer
    /\ scanner = NoScanner
    /\ sources = Originals

NextCache ==
    \/ \E row \in Rows(media_files) : Render(row)
    \/ Refilter
    \/ HandleFinished
    \/ HandleLoaded
    \/ \E id \in DOMAIN jobs : StartRun(id)
    \/ \E id \in DOMAIN jobs : Lookup(id)
    \/ \E id \in DOMAIN jobs : SaveOpen(id)
    \/ \E id \in DOMAIN jobs : SaveWrite(id)
    \/ \E id \in DOMAIN jobs : EmitFinished(id)
    \/ \E id \in DOMAIN jobs : EmitLoaded(id)
    \/ DeleteCacheDir

SpecCache == InitCache /\ [][NextCache]_vars

-----------------------------------------------------------------------------
(* A window showing DataV, whose filters are applied again while           *)
(* thumbnails are being made; no disk call fails.                          *)

InitRetry ==
    /\ media_files = DataV
    /\ icon_cache = EmptyMap
    /\ viewport \in Windows(DataV)
    /\ pending_tasks = << >>
    /\ active_tasks = 0
    /\ jobs = EmptyMap
    /\ mainq = << >>
    /\ cache = [f \in CacheFiles |-> NoEntry]
    /\ cache_dir = FALSE
    /\ nreq = 0
    /\ resets = 0
    /\ req = EmptyMap
    /\ decoder = Idle
    /\ library = NoLibrary
    /\ viewer = NoViewer
    /\ scanner = NoScanner
    /\ sources = Originals

RenderRetry(row) == nreq < MaxRetryRequests /\ Paint(row)

NextRetry ==
    \/ \E row \in Rows(media_files) : RenderRetry(row)
    \/ Scroll
    \/ RefilterUpTo(MaxResets)
    \/ HandleFinished
    \/ HandleLoaded
    \/ \E id \in DOMAIN jobs : BeginOn(id, HealthyDisk)
    \/ \E id \in DOMAIN jobs : SaveOn(id, HealthyDisk)
    \/ \E id \in DOMAIN jobs : EmitFinished(id)
    \/ \E id \in DOMAIN jobs : EmitLoaded(id)

SpecRetry == InitRetry /\ [][NextRetry]_vars

-----------------------------------------------------------------------------
(* The cache key.  A window showing KeyData, which one reload shows in the *)
(* other order; the index may list a file as an image or as a video (the   *)
(* extension lists of the scanner are configurable), and source files      *)
(* are rewritten while the program runs (the first one of KeyData here).   *)
(* No disk call fails.                                                     *)

KeyData == << "/m/c.png", "/m/a.jpg" >>
Reversed(s) == [i \in DOMAIN s |-> s[Len(s) + 1 - i]]
MediaKinds == {"image", "video"}

InitKey ==
    /\ media_files = KeyData
    /\ icon_cache = EmptyMap
    /\ viewport = Rows(KeyData)
    /\ pending_tasks = << >>
    /\ active_tasks = 0
    /\ jobs = EmptyMap
    /\ mainq = << >>
    /\ cache = [f \in CacheFiles |-> NoEntry]
    /\ cache_dir = FALSE
    /\ nreq = 0
    /\ resets = 0
    /\ req = EmptyMap
    /\ decoder = Idle
    /\ library = NoLibrary
    /\ viewer = NoViewer
    /\ scanner = NoScanner
    /\ sources = Originals

RenderKey(row, type) == nreq < MaxKeyRequests /\ PaintAs(row, type)

\* the folder is loaded again, once, and lists its files in the other order
Reload ==
    /\ resets = 0
    /\ Becomes(update_data(Here, Reversed(media_files), viewport))
    /\ resets' = resets + 1
    /\ UNCHANGED << decoder, sources, viewer, library, scanner, mainq, cache,
                    cache_dir, nreq >>

\* another program rewrites a source file
ModifySource(p) ==
    /\ sources[p] < MaxRevisions
    /\ sources' = [sources EXCEPT ![p] = @ + 1]
    /\ UNCHANGED << decoder, viewer, library, scanner, media_files, icon_cache,
                    viewport, pending_tasks, active_tasks, jobs, mainq,
                    cache, cache_dir, nreq, resets, req >>

NextKey ==
    \/ \E row \in Rows(media_files) : \E type \in MediaKinds :
          RenderKey(row, type)
    \/ Reload
    \/ ModifySource(KeyData[1])
    \/ HandleFinished
    \/ HandleLoaded
    \/ \E id \in DOMAIN jobs : BeginOn(id, HealthyDisk)
    \/ \E id \in DOMAIN jobs : SaveOn(id, HealthyDisk)
    \/ \E id \in DOMAIN jobs : EmitFinished(id)
    \/ \E id \in DOMAIN jobs : EmitLoaded(id)

SpecKey == InitKey /\ [][NextKey]_vars

-----------------------------------------------------------------------------
(* The specification: a window showing DataA, nothing requested yet, and   *)
(* no thumbnail cache on disk                                              *)

Init ==
    /\ media_files = DataA
    /\ icon_cache = EmptyMap
    /\ viewport \in Windows(DataA)
    /\ pending_tasks = << >>
    /\ active_tasks = 0
    /\ jobs = EmptyMap
    /\ mainq = << >>
    /\ cache = [f \in CacheFiles |-> NoEntry]
    /\ cache_dir = FALSE
    /\ nreq = 0
    /\ resets = 0
    /\ req = EmptyMap
    /\ decoder = Idle
    /\ library = NoLibrary
    /\ viewer = NoViewer
    /\ scanner = NoScanner
    /\ sources = Originals

Next ==
    \/ \E row \in Rows(media_files) : Render(row)
    \/ Scroll
    \/ UpdateData
    \/ HandleFinished
    \/ HandleLoaded
    \/ \E id \in DOMAIN jobs : Begin(id)
    \/ \E id \in DOMAIN jobs : Save(id)
    \/ \E id \in DOMAIN jobs : EmitFinished(id)
    \/ \E id \in DOMAIN jobs : EmitLoaded(id)

Spec == Init /\ [][Next]_vars

-----------------------------------------------------------------------------
(* Progress of the pending stack.  A window showing the two files of       *)
(* KeyData, both rows visible; the folder may be loaded again once, while  *)
(* the pool is still busy with the requests made before.  The pool runs    *)
(* every runnable it was handed (QThreadPool.start, line 183) and the      *)
(* event loop of the GUI thread delivers every queued call: their steps    *)
(* are weakly fair.  Nothing obliges the view to paint.                    *)

RenderLive(row) == nreq < MaxLiveRequests /\ Paint(row)

NextLive ==
    \/ \E row \in Rows(media_files) : RenderLive(row)
    \/ Reload
    \/ HandleFinished
    \/ HandleLoaded
    \/ \E id \in DOMAIN jobs : BeginOn(id, HealthyDisk)
    \/ \E id \in DOMAIN jobs : SaveOn(id, HealthyDisk)
    \/ \E id \in DOMAIN jobs : EmitFinished(id)
    \/ \E id \in DOMAIN jobs : EmitLoaded(id)

\* a pool thread takes a step of some runnable
PoolRuns ==
    \E id \in DOMAIN jobs :
        \/ BeginOn(id, HealthyDisk)
        \/ SaveOn(id, HealthyDisk)
        \/ EmitFinished(id)
        \/ EmitLoaded(id)

\* the event loop delivers the call at the head of its queue
EventLoopRuns == HandleFinished \/ HandleLoaded

\* while a runnable has a step to take or a call is queued, the program
\* does not stand still
SpecLive ==
    /\ InitKey
    /\ [][NextLive]_vars
    /\ WF_vars(PoolRuns \/ EventLoopRuns)

-----------------------------------------------------------------------------
(* The scenario of the spec's section 8: a data set whose rows 1..10 all   *)
(* lie in the viewport and are painted one after the other in one paint    *)
(* event, pool capacity 2, no scrolling, no reset, and a disk on which no  *)
(* call fails.  The queued slots run when the coordinating thread is back  *)
(* in its event loop, that is after the paint event; the pool's threads    *)
(* run all along.  After the paint event the user may scroll the rows      *)
(* above ScenarioFold out of the viewport, and back.                       *)

InitScenario ==
    /\ media_files = ScenarioData
    /\ icon_cache = EmptyMap
    /\ viewport = Rows(ScenarioData)
    /\ pending_tasks = << >>
    /\ active_tasks = 0
    /\ jobs = EmptyMap
    /\ mainq = << >>
    /\ cache = [f \in CacheFiles |-> NoEntry]
    /\ cache_dir = FALSE
    /\ nreq = 0
    /\ resets = 0
    /\ req = EmptyMap
    /\ decoder = Idle
    /\ library = NoLibrary
    /\ viewer = NoViewer
    /\ scanner = NoScanner
    /\ sources = Originals

\* rows 1, 2, ..., 10 are requested in this order
RenderNext == (nreq + 1) \in ScenarioRows /\ Paint(nreq + 1)

Painted == nreq = Cardinality(ScenarioRows)

ScenarioFold == 6

ScrollScenario ==
    /\ viewport' = IF viewport = Rows(ScenarioData)
                   THEN 0 .. ScenarioFold
                   ELSE Rows(ScenarioData)
    /\ UNCHANGED << decoder, sources, viewer, library, scanner, media_files,
                    icon_cache, pending_tasks, active_tasks, jobs, mainq,
                    cache, cache_dir, nreq, resets, req >>

NextScenario ==
    \/ RenderNext
    \/ Painted /\ ScrollScenario
    \/ Painted /\ HandleFinished
    \/ Painted /\ HandleLoaded
    \/ \E id \in DOMAIN jobs : BeginOn(id, HealthyDisk)
    \/ \E id \in DOMAIN jobs : SaveOn(id, HealthyDisk)
    \/ \E id \in DOMAIN jobs : EmitFinished(id)
    \/ \E id \in DOMAIN jobs : EmitLoaded(id)

SpecScenario == InitScenario /\ [][NextScenario]_vars

-----------------------------------------------------------------------------
(* ImageViewer (src/src/ui/image_viewer.py).  viewer.media_list holds for   *)
(* every entry what is behind its path: a file the reader decodes           *)
(* ("image"), a file it cannot decode ("unreadable"), or no file at all     *)
(* ("missing").  op and before are ghosts: the last operation and the       *)
(* value of current_index before it.                                        *)

MaxMedia == 3
FileStates == {"image", "unreadable", "missing"}
MediaLists == UNION { [1 .. n -> FileStates] : n \in 0 .. MaxMedia }

\* ImageViewer.load_image_by_index
load_image_by_index(v, index) ==
    IF ~(0 <= index /\ index < Len(v.media_list)) THEN v
    ELSE IF v.media_list[index + 1] = "missing"
    THEN [v EXCEPT !.title = "File not found"]
    ELSE [v EXCEPT !.pixmap = IF v.media_list[index + 1] = "unreadable"
                              THEN "Cannot preview file" ELSE "image",
                   !.current_index = index,
                   !.title = "basename"]

\* ImageViewer.__init__
ImageViewerNew(media_list, start_index) ==
    LET v == [NoViewer EXCEPT !.media_list = media_list,
                              !.current_index = start_index,
                              !.title = "Image Viewer",
                              !.op = "init", !.before = start_index]
    IN  IF 0 <= start_index /\ start_index < Len(media_list)
        THEN load_image_by_index(v, start_index)
        ELSE v

\* ImageViewer.next_image
next_image(v) ==
    IF v.current_index < Len(v.media_list) - 1
    THEN load_image_by_index(v, v.current_index + 1)
    ELSE IF v.is_slideshow_active
    THEN load_image_by_index(v, 0)
    ELSE v

\* ImageViewer.prev_image
prev_image(v) ==
    IF v.current_index > 0
    THEN load_image_by_index(v, v.current_index - 1)
    ELSE IF v.is_slideshow_active
    THEN load_image_by_index(v, Len(v.media_list) - 1)
    ELSE v

\* ImageViewer.toggle_slideshow
toggle_slideshow(v, checked) == [v EXCEPT !.is_slideshow_active = checked]

Done(v, op) == [v EXCEPT !.op = op, !.before = viewer.current_index]

Elsewhere ==
    UNCHANGED << media_files, icon_cache, viewport, pending_tasks,
                 active_tasks, jobs, mainq, cache, cache_dir, nreq, resets,
                 req, decoder, sources, scanner >>

\* the Next action, the right arrow key, or the slideshow timer
NextImage ==
    /\ viewer' = Done(next_image(viewer), "next")
    /\ Elsewhere /\ UNCHANGED library

\* the Previous action or the left arrow key
PrevImage ==
    /\ viewer' = Done(prev_image(viewer), "prev")
    /\ Elsewhere /\ UNCHANGED library

\* the Slideshow action or the space key
ToggleSlideshow ==
    /\ viewer' = Done(toggle_slideshow(viewer, ~viewer.is_slideshow_active),
                      "toggle")
    /\ Elsewhere /\ UNCHANGED library

\* the main window opens the viewer on the item that was clicked
InitViewer ==
    /\ media_files = << >>
    /\ icon_cache = EmptyMap
    /\ viewport = {}
    /\ pending_tasks = << >>
    /\ active_tasks = 0
    /\ jobs = EmptyMap
    /\ mainq = << >>
    /\ cache = [f \in CacheFiles |-> NoEntry]
    /\ cache_dir = FALSE
    /\ nreq = 0
    /\ resets = 0
    /\ req = EmptyMap
    /\ decoder = Idle
    /\ sources = Originals
    /\ library = NoLibrary
    /\ scanner = NoScanner
    /\ \E list \in MediaLists :
         \E start \in 0 .. (IF list = << >> THEN 0 ELSE Len(list) - 1) :
            viewer = ImageViewerNew(list, start)

NextViewer == NextImage \/ PrevImage \/ ToggleSlideshow

SpecViewer == InitViewer /\ [][NextViewer]_vars

-----------------------------------------------------------------------------
(* MediaDatabase.remove_media_in_folder (src/src/core/database.py).  A     *)
(* path is the sequence of its characters.  library.table is the set of    *)
(* the file_path values of the table; os is the platform the program runs  *)
(* on, whose separator the stored paths have (batch_insert_media stores    *)
(* os.path.normpath of every path).  op, folder and before are ghosts: the *)
(* last operation, its argument, and the table before it.                  *)

Platforms == {"nt", "posix"}
Sep(os) == IF os = "nt" THEN "\\" ELSE "/"

\* the folders and files of the library, by their components
Photos == << "p" >>
Vacation == << "v", "_", "1" >>
Entries ==
    { << Photos, Vacation, << "a" >> >>,
      << Photos, Vacation, << "s" >>, << "b" >> >>,
      << Photos, << "v", "_", "1", ".", "j" >> >>,
      << Photos, << "w" >>, << "c" >> >>,
      << Photos, << "v", "x", "1" >>, << "d" >> >>,
      << Photos, << "V", "_", "1" >>, << "e" >> >> }
Folders ==
    { << Photos, Vacation >>, << Photos, << "w" >> >>,
      << Photos, << "v", "x", "1" >> >>, << Photos >> }

RECURSIVE Join(_, _)
\* os.path.join of the components under the root
Join(sep, parts) ==
    IF parts = << >> THEN << >>
    ELSE << sep >> \o Head(parts) \o Join(sep, Tail(parts))

\* str.replace and SQL replace() for one character
replace(str, old, new) == [i \in DOMAIN str |-> IF str[i] = old THEN new ELSE str[i]]

\* os.path.normpath on a path without '.', '..' and doubled separators:
\* ntpath turns '/' into '\', and both drop a trailing separator
normpath(os, path) ==
    LET q == IF os = "nt" THEN replace(path, "/", "\\") ELSE path
    IN  IF Len(q) > 1 /\ q[Len(q)] = Sep(os)
        THEN SubSeq(q, 1, Len(q) - 1)
        ELSE q

\* SQLite folds the ASCII letters for LIKE
Lower(c) == IF c = "V" THEN "v" ELSE c

RECURSIVE like(_, _)
\* the LIKE operator of SQLite with no ESCAPE clause: '%' stands for any
\* run of characters, '_' for any one character, and letters match without
\* regard to case
like(pattern, str) ==
    IF pattern = << >> THEN str = << >>
    ELSE IF Head(pattern) = "%"
    THEN \E k \in 0 .. Len(str) :
            like(Tail(pattern), SubSeq(str, k + 1, Len(str)))
    ELSE IF str = << >> THEN FALSE
    ELSE IF Head(pattern) = "_" THEN like(Tail(pattern), Tail(str))
    ELSE /\ Lower(Head(pattern)) = Lower(Head(str))
         /\ like(Tail(pattern), Tail(str))

\* MediaDatabase.remove_media_in_folder
remove_media_in_folder(lib, folder_path) ==
    LET normalized == normpath(lib.os, folder_path)
        search_pattern == replace(normalized, "/", "\\") \o << "\\", "%" >>
        deleted == { file_path \in lib.table :
                       like(search_pattern, replace(file_path, "/", "\\")) }
    IN  [lib EXCEPT !.table = @ \ deleted,
                    !.deleted_count = Cardinality(deleted),
                    !.op = "remove",
                    !.folder = folder_path,
                    !.before = lib.table]

\* the user removes a folder from the library
RemoveFolder ==
    /\ \E folder \in Folders : \E trailing \in BOOLEAN :
          library' = remove_media_in_folder(library,
              Join(Sep(library.os), folder)
                  \o (IF trailing THEN << Sep(library.os) >> ELSE << >>))
    /\ Elsewhere /\ UNCHANGED viewer

\* a library filled by earlier scans
InitLibrary ==
    /\ media_files = << >>
    /\ icon_cache = EmptyMap
    /\ viewport = {}
    /\ pending_tasks = << >>
    /\ active_tasks = 0
    /\ jobs = EmptyMap
    /\ mainq = << >>
    /\ cache = [f \in CacheFiles |-> NoEntry]
    /\ cache_dir = FALSE
    /\ nreq = 0
    /\ resets = 0
    /\ req = EmptyMap
    /\ decoder = Idle
    /\ sources = Originals
    /\ viewer = NoViewer
    /\ scanner = NoScanner
    /\ \E os \in Platforms : \E scanned \in SUBSET Entries :
          library = [NoLibrary EXCEPT
                        !.os = os,
                        !.table = { Join(Sep(os), e) : e \in scanned }]

NextLibrary == RemoveFolder

SpecLibrary == InitLibrary /\ [][NextLibrary]_vars

-----------------------------------------------------------------------------
(* MediaDatabase.batch_insert_media and add_media.  library.rows is the    *)
(* table media_files in the order of insertion, a row being its file_path  *)
(* (UNIQUE NOT NULL) and its file_type; filename, extension, date and size *)
(* are read from the path and the file and the id is given by SQLite.      *)
(* arg, was and returned are ghosts: the argument of the last call, the    *)
(* rows before it and what it returned.                                    *)

MaxBatch == 2

\* the files on disk, and one that was deleted after it was listed
Clip == << Photos, << "a" >> >>
OnDisk == { Clip, << Photos, << "w" >>, << "c" >> >> }
Deleted == << Photos, << "d" >> >>

\* os.stat succeeds
stat_ok(os, path) == path \in { Join(Sep(os), e) : e \in OnDisk }

\* the ways a caller may spell the path of a listed file
Spellings(os) ==
    { Join(Sep(os), e) : e \in OnDisk \cup {Deleted} }
        \cup { Join("/", e) : e \in OnDisk }
\* what a caller may pass: every spelling as an image, and one file also
\* as a video (the extension lists of the configuration can change)
MediaItems(os) ==
    (Spellings(os) \X {"image"}) \cup { << Join(Sep(os), Clip), "video" >> }
MediaBatches(os) == UNION { [1 .. n -> MediaItems(os)] : n \in 0 .. MaxBatch }

RECURSIVE data_to_insert(_, _)
\* lines 70-84: the rows of the files whose stats can be read
data_to_insert(os, media_list) ==
    IF media_list = << >> THEN << >>
    ELSE LET norm_path == normpath(os, Head(media_list)[1])
             rest == data_to_insert(os, Tail(media_list))
         IN  IF stat_ok(os, norm_path)
             THEN << [file_path |-> norm_path,
                      file_type |-> Head(media_list)[2]] >> \o rest
             ELSE rest

\* (mutant) INSERT OR REPLACE: the row that is there gives way to the new one
insert_or_replace(t, row) ==
    [rows |-> SelectSeq(t.rows, LAMBDA r : r.file_path # row.file_path)
                 \o << row >>,
     rowcount |-> t.rowcount + 1]

\* INSERT OR IGNORE under the UNIQUE constraint on file_path: one statement
insert_or_ignore(t, row) ==
    IF \E i \in DOMAIN t.rows : t.rows[i].file_path = row.file_path
    THEN t
    ELSE [rows |-> Append(t.rows, row), rowcount |-> t.rowcount + 1]

RECURSIVE executemany(_, _)
\* cursor.executemany: the statement once per row; rowcount is the sum of
\* the rows changed
executemany(t, data) ==
    IF data = << >> THEN t
    ELSE executemany(insert_or_ignore(t, Head(data)), Tail(data))

\* MediaDatabase.batch_insert_media
batch_insert_media(lib, media_list) ==
    LET done == executemany([rows |-> lib.rows, rowcount |-> 0],
                            data_to_insert(lib.os, media_list))
    IN  [lib EXCEPT !.rows = done.rows,
                    !.returned = done.rowcount,
                    !.op = "batch_insert",
                    !.arg = media_list,
                    !.was = lib.rows]

\* MediaDatabase.add_media; returned is 1 for True and 0 for False
add_media(lib, file_path, file_type) ==
    LET done == batch_insert_media(lib, << << file_path, file_type >> >>)
    IN  [done EXCEPT !.op = "add",
                     !.returned = IF done.returned > 0 THEN 1 ELSE 0]

\* the scanner hands over a batch
BatchInsert ==
    /\ \E media_list \in MediaBatches(library.os) :
          library' = batch_insert_media(library, media_list)
    /\ Elsewhere /\ UNCHANGED viewer

\* a single file is added
AddMedia ==
    /\ \E item \in MediaItems(library.os) :
          library' = add_media(library, item[1], item[2])
    /\ Elsewhere /\ UNCHANGED viewer

\* an empty index
InitIndex ==
    /\ media_files = << >>
    /\ icon_cache = EmptyMap
    /\ viewport = {}
    /\ pending_tasks = << >>
    /\ active_tasks = 0
    /\ jobs = EmptyMap
    /\ mainq = << >>
    /\ cache = [f \in CacheFiles |-> NoEntry]
    /\ cache_dir = FALSE
    /\ nreq = 0
    /\ resets = 0
    /\ req = EmptyMap
    /\ decoder = Idle
    /\ sources = Originals
    /\ viewer = NoViewer
    /\ scanner = NoScanner
    /\ \E os \in Platforms : library = [NoLibrary EXCEPT !.os = os]

NextIndex == BatchInsert \/ AddMedia

SpecIndex == InitIndex /\ [][NextIndex]_vars

-----------------------------------------------------------------------------
(* MediaScanner (src/src/core/scanner.py).  run() is the body of a thread  *)
(* of its own and stop() is called on the thread of the window, so a step  *)
(* of run() is what it does between two reads of _is_running; scanner.pc   *)
(* is the place of run(): "folder", "root" and "file" are the heads of the *)
(* three loops, "found" is the body of the innermost loop after its check, *)
(* "batch" the insertion of a full buffer (lines 66-68),                   *)
(* "flush" the test of line 71, "insert" the call of line 72, "finish" the *)
(* lines 75-86 and "done" the end of run().  folder, root and file are the *)
(* positions of the three loops.  at_stop, late and finished are ghosts:   *)
(* the place of run() when stop() cleared the flag, the number of batches  *)
(* handed to the database while the flag was clear, and the number of      *)
(* times finished_scan was emitted.                                        *)

\* stands for batch_size = 50 (line 18)
BatchSize == 2

\* the folders a scan may be given
Album == << Photos, << "w" >> >>
FolderLists == { << << Photos >> >>, << << Photos >>, Album >>,
                 << Album, << Photos >> >> }

\* os.walk(folder): the directories from the top down, each with its files;
\* p/d is listed and deleted before its stats are read
walk(folder) ==
    LET album == [root |-> Album, files |-> << << "c" >> >>]
    IN  IF folder = << Photos >>
        THEN << [root |-> << Photos >>,
                 files |-> << << "a" >>, << "t" >>, << "d" >> >>], album >>
        ELSE << album >>

\* os.path.splitext(file)[1].lower() of the files listed
splitext(file) ==
    CASE file = << "a" >> -> ".mp4"
      [] file \in { << "c" >>, << "d" >> } -> ".jpg"
      [] OTHER -> ".txt"
image_exts == { ".jpg", ".png" }
video_exts == { ".mp4" }

\* lines 54-60; "none" stands for None
file_type(file) ==
    IF splitext(file) \in image_exts THEN "image"
    ELSE IF splitext(file) \in video_exts THEN "video"
    ELSE "none"

\* MediaScanner.__init__ and the lines 22-28 of run()
MediaScannerNew(folders_to_scan) ==
    [NoScanner EXCEPT !.pc = "folder",
                      !.folders_to_scan = folders_to_scan,
                      !.batch_size = BatchSize,
                      !.folder = 1]

Walk(s) == walk(s.folders_to_scan[s.folder])
Files(s) == Walk(s)[s.root].files

\* lines 30-36: the head of the loop over the folders
folder_loop(s) ==
    IF s.folder > Len(s.folders_to_scan) \/ ~s.is_running
    THEN [s EXCEPT !.pc = "flush"]
    ELSE [s EXCEPT !.pc = "root", !.root = 1]

\* lines 36-45: the head of the loop over the directories of the walk
walk_loop(s) ==
    IF s.root > Len(Walk(s)) \/ ~s.is_running
    THEN [s EXCEPT !.pc = "folder", !.folder = @ + 1]
    ELSE [s EXCEPT !.pc = "file", !.file = 1]

\* lines 47-49: the head of the loop over the files
file_loop(s) ==
    IF s.file > Len(Files(s)) \/ ~s.is_running
    THEN [s EXCEPT !.pc = "root", !.root = @ + 1]
    ELSE [s EXCEPT !.pc = "found"]

\* a batch is handed to the database: lines 66-67 and 72-73
inserted(s, lib) ==
    LET done == batch_insert_media(lib, s.batch_buffer)
    IN  [scanner |-> [s EXCEPT
                        !.total_files = @ + done.returned,
                        !.late = @ + (IF s.is_running THEN 0 ELSE 1)],
         library |-> done]

\* lines 51-65: the file is named and, if it is a picture or a film, put
\* into the buffer
found(s, os) ==
    LET file == Files(s)[s.file]
        file_path == normpath(os,
                         Join(Sep(os), Append(Walk(s)[s.root].root, file)))
        next == [s EXCEPT !.pc = "file", !.file = @ + 1]
    IN  IF file_type(file) = "none"
        THEN next
        ELSE IF Len(s.batch_buffer) + 1 >= s.batch_size
             THEN [next EXCEPT
                     !.pc = "batch",
                     !.batch_buffer = Append(@, << file_path, file_type(file) >>)]
             ELSE [next EXCEPT
                     !.batch_buffer = Append(@, << file_path, file_type(file) >>)]

\* (mutant) what is left is flushed whether or not the scan was stopped
flush_unguarded(s) ==
    IF s.batch_buffer # << >>
    THEN [s EXCEPT !.pc = "insert"]
    ELSE [s EXCEPT !.pc = "finish"]

\* line 71: the test before the last batch
flush(s) ==
    IF s.batch_buffer # << >> /\ s.is_running
    THEN [s EXCEPT !.pc = "insert"]
    ELSE [s EXCEPT !.pc = "finish"]

\* lines 75-86: the last message, the statistics and finished_scan
finish(s) == [s EXCEPT !.pc = "done", !.finished = @ + 1]

\* MediaScanner.stop: the flag is cleared; wait() changes nothing
stop(s) == [s EXCEPT !.is_running = FALSE, !.at_stop = s.pc]

Window ==
    UNCHANGED << media_files, icon_cache, viewport, pending_tasks,
                 active_tasks, jobs, mainq, cache, cache_dir, nreq, resets,
                 req, decoder, sources, viewer >>

FolderLoop ==
    /\ scanner.pc = "folder"
    /\ scanner' = folder_loop(scanner)
    /\ Window /\ UNCHANGED library

WalkLoop ==
    /\ scanner.pc = "root"
    /\ scanner' = walk_loop(scanner)
    /\ Window /\ UNCHANGED library

FileLoop ==
    /\ scanner.pc = "file"
    /\ scanner' = file_loop(scanner)
    /\ Window /\ UNCHANGED library

Found ==
    /\ scanner.pc = "found"
    /\ scanner' = found(scanner, library.os)
    /\ Window /\ UNCHANGED library

\* lines 66-68: the full buffer is inserted and emptied
Batch ==
    /\ scanner.pc = "batch"
    /\ LET step == inserted(scanner, library)
       IN  /\ scanner' = [step.scanner EXCEPT !.pc = "file",
                                              !.batch_buffer = << >>]
           /\ library' = step.library
    /\ Window

Flush ==
    /\ scanner.pc = "flush"
    /\ scanner' = flush(scanner)
    /\ Window /\ UNCHANGED library

FlushInsert ==
    /\ scanner.pc = "insert"
    /\ LET step == inserted(scanner, library)
       IN  /\ scanner' = [step.scanner EXCEPT !.pc = "finish"]
           /\ library' = step.library
    /\ Window

Finish ==
    /\ scanner.pc = "finish"
    /\ scanner' = finish(scanner)
    /\ Window /\ UNCHANGED library

\* stop() while run() is running
Stop ==
    /\ scanner.pc \notin { "none", "done" }
    /\ scanner.is_running
    /\ scanner' = stop(scanner)
    /\ Window /\ UNCHANGED library

\* a scanner thread was started on an empty index
InitScan ==
    /\ media_files = << >>
    /\ icon_cache = EmptyMap
    /\ viewport = {}
    /\ pending_tasks = << >>
    /\ active_tasks = 0
    /\ jobs = EmptyMap
    /\ mainq = << >>
    /\ cache = [f \in CacheFiles |-> NoEntry]
    /\ cache_dir = FALSE
    /\ nreq = 0
    /\ resets = 0
    /\ req = EmptyMap
    /\ decoder = Idle
    /\ sources = Originals
    /\ viewer = NoViewer
    /\ \E os \in Platforms : library = [NoLibrary EXCEPT !.os = os]
    /\ \E folders_to_scan \in FolderLists :
          scanner = MediaScannerNew(folders_to_scan)

\* the steps of run()
Run ==
    \/ FolderLoop
    \/ WalkLoop
    \/ FileLoop
    \/ Found
    \/ Batch
    \/ Flush
    \/ FlushInsert
    \/ Finish

NextScan == Run \/ Stop

\* a started thread is scheduled until run() returns
SpecScan == InitScan /\ [][NextScan]_vars /\ WF_vars(Run)

-----------------------------------------------------------------------------
(* Properties *)

FinishedCalls ==
    { i \in DOMAIN mainq : mainq[i].slot = "_on_thumbnail_finished" }
\* 1 in a step that runs _on_thumbnail_finished, else 0
FinishedNow ==
    IF /\ mainq # << >>
       /\ Head(mainq).slot = "_on_thumbnail_finished"
       /\ mainq' = Tail(mainq)
    THEN 1 ELSE 0
\* the number of runnables started in a step
StartedNow == Cardinality(Started(req')) - Cardinality(Started(req))
\* the requests announced by task_canceled in a step
DroppedNow ==
    { id \in DOMAIN req' :
        req'[id].cancels > (IF id \in DOMAIN req THEN req[id].cancels ELSE 0) }

\* C1: active_tasks never exceeds max_workers.
ActiveTasksBounded == active_tasks <= max_workers

\* C1 witness: the pool is full and a request waits on the stack.
PoolFullWitness == active_tasks = max_workers /\ pending_tasks # << >>

\* C2 (as claimed): an icon made from an image is the thumbnail of the file
\* the current data set has in that row, so a job dispatched before a reset
\* never decorates a row of the new data set.
StaleResultNeverApplied ==
    \A row \in DOMAIN icon_cache :
        icon_cache[row].kind = "thumb" =>
            /\ row \in Rows(media_files)
            /\ icon_cache[row].src = RowPath(media_files, row)

\* C3: a runnable emits thumbnail_loaded once, at the end of run() on every
\* path, whatever happens to the stack and the data set meanwhile: it holds
\* its slot of active_tasks until the queued _on_thumbnail_finished has run,
\* which takes exactly one from active_tasks and then runs schedule().
EmitsExactlyOnce ==
    /\ [](/\ \A id \in DOMAIN jobs :
                /\ jobs[id].pc \in {"queued", "save", "emit", "emit2"}
                /\ jobs[id].emitted = (IF jobs[id].pc = "emit2" THEN 1 ELSE 0)
          /\ active_tasks =
                Cardinality({ id \in DOMAIN jobs : jobs[id].emitted = 0 })
                + Cardinality(FinishedCalls))
    /\ [][ /\ \A id \in (DOMAIN jobs) \ (DOMAIN jobs') : jobs[id].emitted = 1
           /\ FinishedNow = 1 =>
                /\ active_tasks' = active_tasks - 1 + StartedNow
                /\ pending_tasks' = << >> \/ active_tasks' = max_workers ]_vars

\* C3 witness: a job that found its image in the cache has emitted, after a
\* reset of the data set.
CacheHitEmittedWitness ==
    /\ resets > 0
    /\ \E id \in DOMAIN jobs : jobs[id].hit /\ jobs[id].pc = "emit2"

\* C4: a request popped while its row is not visible is announced by exactly
\* one task_canceled, is never started, and its drop leaves active_tasks as
\* it is (the count changes by the starts and the completion of the step).
DroppedNotStarted ==
    /\ [](\A id \in DOMAIN req :
            (req[id].pops > 0 /\ ~req[id].seen) =>
                /\ req[id].pops = 1
                /\ req[id].cancels = 1
                /\ req[id].starts = 0
                /\ id \notin DOMAIN jobs)
    /\ [][ DroppedNow # {} =>
             active_tasks' = active_tasks + StartedNow - FinishedNow ]_vars

\* C4 witness: a request was dropped as not visible.
DroppedWitness ==
    \E id \in DOMAIN req : req[id].cancels = 1 /\ ~req[id].seen

\* C5: whenever schedule() pops a request, no newer request is pending.
PopsNewestFirst == \A id \in DOMAIN req : req[id].newer = {}

\* C5 witness: requests were popped, one to be dispatched and one to be
\* dropped, while older ones stayed pending.
PoppedAboveOlderWitness ==
    /\ \E id \in DOMAIN req :
          req[id].starts = 1 /\ req[id].older # {}
    /\ \E id \in DOMAIN req :
          req[id].cancels = 1 /\ req[id].older # {}

NoneDropped == \A id \in DOMAIN req : req[id].cancels = 0

\* the row dispatched in place ord when rows 1..10 are requested in one go:
\* the first max_workers requests at once, then the pending ones from the
\* newest down
ScenarioOrder(ord) ==
    IF ord <= max_workers THEN ord
    ELSE Cardinality(ScenarioRows) + max_workers + 1 - ord

\* C6 (as claimed): with every row visible the rows are dispatched in
\* descending order 10, 9, 8, ...
DispatchDescending ==
    NoneDropped =>
        \A id \in DOMAIN jobs :
            jobs[id].row = Cardinality(ScenarioRows) + 1 - jobs[id].ord

\* C6 (amended): with every row visible, rows 1 and 2 are dispatched at once
\* in this order, and then rows 10, 9, ..., 3 as completions free the slots.
DispatchFirstTwoThenDescending ==
    NoneDropped =>
        \A id \in DOMAIN jobs : jobs[id].row = ScenarioOrder(jobs[id].ord)

\* C6 witness: the tenth dispatch has happened and nothing was dropped.
AllDispatchedWitness ==
    /\ NoneDropped
    /\ \E id \in DOMAIN jobs : jobs[id].ord = Cardinality(ScenarioRows)

\* C7 (as claimed): a request is on the stack until schedule() pops it once,
\* and is then either started or announced by task_canceled, never both;
\* it leaves the stack in no other way.
LeavesByDispatchOrDrop ==
    \A id \in DOMAIN req :
        IF id \in PendingIds(pending_tasks)
        THEN req[id].pops = 0 /\ req[id].starts = 0 /\ req[id].cancels = 0
        ELSE req[id].pops = 1 /\ req[id].starts + req[id].cancels = 1

\* C7 (amended): a request is at most once on the stack and leaves it once:
\* popped by schedule() and then either started or announced by
\* task_canceled, never both, or removed by cancel_pending_tasks with
\* neither a start nor an announcement.
LeavesByDispatchDropOrClear ==
    /\ Cardinality(PendingIds(pending_tasks)) = Len(pending_tasks)
    /\ \A id \in DOMAIN req :
          IF id \in PendingIds(pending_tasks)
          THEN /\ req[id].pops = 0 /\ req[id].cleared = 0
               /\ req[id].starts = 0 /\ req[id].cancels = 0
          ELSE \/ /\ req[id].pops = 1 /\ req[id].cleared = 0
                  /\ req[id].starts + req[id].cancels = 1
               \/ /\ req[id].pops = 0 /\ req[id].cleared = 1
                  /\ req[id].starts = 0 /\ req[id].cancels = 0

\* C7 witness: one request was started, another removed by the bulk clear.
StartedAndClearedWitness ==
    /\ \E id \in DOMAIN req : req[id].starts = 1
    /\ \E id \in DOMAIN req : req[id].cleared = 1

NotEmitted == { id \in DOMAIN jobs : jobs[id].pc \in {"save", "emit"} }

\* C8 (as claimed): at most max_workers executions of run() are in progress,
\* and never more than active_tasks.
RunningWithinActiveTasks ==
    /\ Cardinality(Running(jobs)) <= max_workers
    /\ Cardinality(Running(jobs)) <= active_tasks

\* C8 (amended): at most max_workers executions of run() are in progress,
\* and the executions that have not yet emitted their completion are never
\* more than active_tasks.
RunningWithinPool ==
    /\ Cardinality(Running(jobs)) <= max_workers
    /\ Cardinality(NotEmitted) <= active_tasks

\* C8 witness: every thread of the pool is busy and a started runnable waits
\* in the pool's queue.
PoolQueueWitness ==
    /\ Cardinality(Running(jobs)) = max_workers
    /\ \E id \in DOMAIN jobs : jobs[id].pc = "queued"

\* C9: the step of update_data, which calls cancel_pending_tasks, empties
\* the stack, announces no request by task_canceled, starts nothing, and
\* leaves active_tasks, the runnables and the queued completions as they are.
CancelPendingFrame ==
    [][ resets' # resets =>
          /\ pending_tasks' = << >>
          /\ DOMAIN req' = DOMAIN req
          /\ \A id \in DOMAIN req :
                /\ req'[id].cancels = req[id].cancels
                /\ req'[id].starts = req[id].starts
                /\ req'[id].pops = req[id].pops
          /\ active_tasks' = active_tasks
          /\ jobs' = jobs
          /\ mainq' = mainq ]_vars

\* C9 witness: a request was removed by the bulk clear while a job was
\* writing its cache entry.
ClearedInFlightWitness ==
    /\ \E id \in DOMAIN req : req[id].cleared = 1
    /\ \E id \in DOMAIN jobs : jobs[id].pc = "save" /\ req[id].cleared = 0
    /\ active_tasks = max_workers

\* C10: a job that emits a generated, non-null image has called image.save
\* on it before; a job that emits a null image or a cached one has not.
SavedBeforeEmit ==
    \A id \in DOMAIN jobs :
        jobs[id].pc \in {"emit", "emit2"} =>
            jobs[id].saved =
                (IF ~jobs[id].image.null /\ ~jobs[id].hit THEN 1 ELSE 0)

\* C10 witness: a job is about to emit the image it generated, and the cache
\* holds its encoding.
GeneratedAndStoredWitness ==
    \E id \in DOMAIN jobs :
        /\ jobs[id].pc = "emit"
        /\ ~jobs[id].hit
        /\ cache_dir
        /\ cache[cache_path(jobs[id].path)] = JpegEncoded(jobs[id].image)

PastLookup(job) == job.pc \in {"save", "write", "emit", "emit2"}
Writers(path) ==
    { id \in DOMAIN jobs : /\ jobs[id].path = path
                           /\ jobs[id].pc = "write"
                           /\ jobs[id].fd = "open" }
\* the entry of a path is stored, or a job is about to write it out
StoredOrBeingWritten(path) ==
    /\ cache_dir
    /\ \/ cache[cache_path(path)] = JpegEncoded(Thumb(path))
       \/ cache[cache_path(path)] = Partial /\ Writers(path) # {}

\* C11 (as claimed): a job that begins when a complete entry for its path is
\* stored, the cache directory not being deleted while it runs, returns the
\* stored image from the cache, without decoding the source and without
\* writing the cache again.
StoredImageServedFromCache ==
    \A id \in DOMAIN jobs :
        (jobs[id].late /\ ~jobs[id].wiped /\ PastLookup(jobs[id])) =>
            /\ jobs[id].hit
            /\ jobs[id].image = JpegEncoded(Thumb(jobs[id].path))
            /\ jobs[id].saved = 0

\* C12 (as claimed): a job reading the cache entry of a path another job is
\* writing finds either no entry or a completely written one.
NeverObservesPartialFile ==
    \A id \in DOMAIN jobs : jobs[id].saw # "partial"

InFlightPairs ==
    { pair \in (DOMAIN jobs) \X (DOMAIN jobs) :
        /\ pair[1] # pair[2]
        /\ jobs[pair[1]].path = jobs[pair[2]].path
        /\ jobs[pair[1]].pc # "queued"
        /\ jobs[pair[2]].pc # "queued" }
Emitting(job) == job.pc \in {"emit", "emit2"}

\* C13: of two jobs for the same decodable path that run at the same time,
\* each delivers a non-null image, and when both have finished with the cache
\* (the directory not being deleted meanwhile) the path's one cache file
\* holds the complete encoded thumbnail; a cut-off file is always one that a
\* job is still writing.
SamePathJobsBothDeliver ==
    /\ \A pair \in InFlightPairs :
          Decodable(jobs[pair[1]].path) =>
             /\ PastLookup(jobs[pair[1]]) => ~jobs[pair[1]].image.null
             /\ ( /\ Emitting(jobs[pair[1]]) /\ ~jobs[pair[1]].wiped
                  /\ Emitting(jobs[pair[2]]) /\ ~jobs[pair[2]].wiped )
                => /\ cache_dir
                   /\ cache[cache_path(jobs[pair[1]].path)]
                         = JpegEncoded(Thumb(jobs[pair[1]].path))
    /\ \A p \in AllPaths : cache[cache_path(p)] = Partial => Writers(p) # {}

\* C13 witness: two jobs for the same path have both generated and written
\* the image and are about to emit it.
BothWroteWitness ==
    \E pair \in InFlightPairs :
        /\ jobs[pair[1]].pc = "emit" /\ jobs[pair[2]].pc = "emit"
        /\ ~jobs[pair[1]].hit /\ ~jobs[pair[2]].hit
        /\ jobs[pair[1]].saved = 1 /\ jobs[pair[2]].saved = 1
        /\ ~jobs[pair[1]].wiped /\ ~jobs[pair[2]].wiped

FailedToDecode(job) ==
    \/ job.saw = "corrupt"
    \/ job.saw = "partial" /\ job.image # Damaged

\* C14: a job whose cache entry exists but does not decode goes on as on a
\* miss: it generates the image from the source, and once it has saved a
\* non-null image (the directory not being deleted meanwhile) the entry is
\* the complete encoded thumbnail, or is being written by another job.
UndecodableEntryIsMiss ==
    \A id \in DOMAIN jobs :
        (PastLookup(jobs[id]) /\ FailedToDecode(jobs[id])) =>
            /\ ~jobs[id].hit
            /\ jobs[id].image = generate(jobs[id].path, jobs[id].type)
            /\ (Emitting(jobs[id]) /\ ~jobs[id].wiped /\ wants_save(jobs[id].image))
               => /\ jobs[id].saved = 1
                  /\ StoredOrBeingWritten(jobs[id].path)

\* C14 witness: a job found an undecodable entry and wrote it anew, and a
\* later job got the image from the cache.
OverwrittenThenHitWitness ==
    \E a \in DOMAIN jobs : \E b \in DOMAIN jobs :
        /\ jobs[a].saw = "corrupt" /\ jobs[a].pc = "emit2" /\ jobs[a].saved = 1
        /\ jobs[b].late /\ jobs[b].hit /\ jobs[b].pc = "emit"
        /\ jobs[b].image = JpegEncoded(Thumb(jobs[b].path))

\* C15: a job whose cache entry could not be stored (the directory could not
\* be created, or the file not written) emits the image it generated all the
\* same, once; so does every other job, before and after.
FailedCachingStillDelivers ==
    \A id \in DOMAIN jobs :
        (Emitting(jobs[id]) /\ ~jobs[id].hit) =>
            /\ jobs[id].image = generate(jobs[id].path, jobs[id].type)
            /\ jobs[id].saved = (IF wants_save(jobs[id].image) THEN 1 ELSE 0)
            /\ jobs[id].emitted = (IF jobs[id].pc = "emit2" THEN 1 ELSE 0)

\* C15 witness: a job has emitted the image it generated although its cache
\* file could not be written, and another job has stored its entry.
UnstoredButEmittedWitness ==
    \E a \in DOMAIN jobs : \E b \in DOMAIN jobs :
        /\ jobs[a].pc = "emit2" /\ jobs[a].saved = 1 /\ ~jobs[a].image.null
        /\ cache[cache_path(jobs[a].path)] = NoEntry
        /\ jobs[b].pc = "emit" /\ jobs[b].saved = 1
        /\ cache_dir
        /\ cache[cache_path(jobs[b].path)] = JpegEncoded(jobs[b].image)

\* C16: whenever the cache directory is deleted, every job still gets a
\* non-null image for a decodable path, and a job that began after the
\* deletion either found the entry stored again or stored it itself.
DeletedCacheRepopulates ==
    \A id \in DOMAIN jobs :
        Decodable(jobs[id].path) =>
            /\ PastLookup(jobs[id]) => ~jobs[id].image.null
            /\ (Emitting(jobs[id]) /\ ~jobs[id].wiped)
               => /\ jobs[id].hit \/ jobs[id].saved = 1
                  /\ StoredOrBeingWritten(jobs[id].path)

\* C16 witness: the directory was deleted while a job had its cache file
\* open, and a job that began afterwards has stored the entry again.
RepopulatedWitness ==
    \E a \in DOMAIN jobs : \E b \in DOMAIN jobs :
        /\ jobs[a].wiped /\ jobs[a].pc = "write" /\ jobs[a].fd = "unlinked"
        /\ ~jobs[b].wiped /\ jobs[b].pc = "emit" /\ ~jobs[b].hit
        /\ jobs[b].saved = 1
        /\ cache[cache_path(jobs[b].path)] = JpegEncoded(Thumb(jobs[b].path))

Unreadable(f) == f \in {"fail", "null", "empty"}

\* C17: a video whose first 5 frame reads are all unreadable (read failed,
\* None or a zero-sized frame) has exactly 5 frames read, and run() emits the
\* null image once, with no exception raised and without calling image.save.
FiveUnreadableFramesGiveEmpty ==
    ( /\ decoder.pc = "done" /\ decoder.kind = "video"
      /\ decoder.cv2 /\ decoder.opens
      /\ \A i \in 1 .. frame_attempts : Unreadable(FrameAt(decoder.frames, i)) )
    => /\ decoder.reads = frame_attempts
       /\ decoder.null
       /\ ~decoder.caught
       /\ decoder.saves = 0
       /\ decoder.emitted = 1

\* C17 witness: five unreadable frames followed by a readable one.
SixthFrameReadableWitness ==
    /\ decoder.pc = "done"
    /\ decoder.cv2 /\ decoder.opens
    /\ decoder.frames = << "fail", "null", "empty", "fail", "null", "ok" >>
    /\ decoder.null

LongSide(size) == IF size[1] >= size[2] THEN size[1] ELSE size[2]
ShortSide(size) == IF size[1] >= size[2] THEN size[2] ELSE size[1]
\* the side of the target that belongs to the longest side of the source
TargetLong(size, target) == IF size[1] >= size[2] THEN target[1] ELSE target[2]
TargetShort(size, target) == IF size[1] >= size[2] THEN target[2] ELSE target[1]
Abs(x) == IF x >= 0 THEN x ELSE 0 - x

\* C18: for a source of width and height at least 1, the target size has its
\* longest side exactly 100, and its other side is at most 100 and within
\* 1 px of 100 * short / long.
TargetFitsSquare ==
    ( /\ decoder.pc = "done" /\ decoder.kind = "image"
      /\ decoder.size[1] >= 1 /\ decoder.size[2] >= 1 )
    => /\ TargetLong(decoder.size, decoder.target) = thumb_size
       /\ TargetShort(decoder.size, decoder.target) <= thumb_size
       /\ Abs(TargetShort(decoder.size, decoder.target) * LongSide(decoder.size)
              - thumb_size * ShortSide(decoder.size)) <= LongSide(decoder.size)

\* C18 witness: 4000x3000 gives 100x75.
FourByThreeWitness ==
    /\ decoder.pc = "done"
    /\ decoder.size = << 4000, 3000 >>
    /\ decoder.target = << 100, 75 >>

\* C19 (as claimed): the completion with a null image for a row of the
\* current data set puts the file-type icon into icon_cache[row], and the
\* icon stays there (so that the row is not requested again) until the data
\* set is reset.
FallbackIconStays ==
    [][ /\ ( /\ mainq # << >>
             /\ Head(mainq).slot = "on_thumbnail_loaded"
             /\ Head(mainq).image.null
             /\ Head(mainq).row < rowCount(media_files)
             /\ mainq' = Tail(mainq) )
           => /\ Head(mainq).row \in DOMAIN icon_cache'
              /\ icon_cache'[Head(mainq).row] =
                    FileIcon(RowPath(media_files, Head(mainq).row))
        /\ \A row \in DOMAIN icon_cache :
              (icon_cache[row].kind = "file" /\ resets' = resets)
                 => /\ row \in DOMAIN icon_cache'
                    /\ icon_cache'[row] = icon_cache[row] ]_vars

\* a step of a worker thread: a runnable goes on in run(), or returns from it
WorkerStep ==
    \E id \in DOMAIN jobs : id \notin DOMAIN jobs' \/ jobs'[id] # jobs[id]

\* C20: no step of run() changes pending_tasks, active_tasks or icon_cache;
\* they change only in handlers of the coordinating thread, which leave
\* every runnable as it is.
WorkersLeaveLoaderState ==
    [][ WorkerStep =>
          UNCHANGED << pending_tasks, active_tasks, icon_cache >> ]_vars

\* C20 witness: a worker has emitted its completion while the pool is full
\* and a request is pending; the queued handler has not run yet.
EmittedBeforeHandlerWitness ==
    /\ \E id \in DOMAIN jobs : jobs[id].pc = "emit2"
    /\ FinishedCalls # {}
    /\ active_tasks = max_workers
    /\ pending_tasks # << >>

LoadedCalls ==
    { i \in DOMAIN mainq : mainq[i].slot = "on_thumbnail_loaded" }
\* the rows whose request is pending, running, or completed and not yet
\* delivered to the display layer
BusyRows ==
    { pending_tasks[i].row : i \in DOMAIN pending_tasks }
    \cup { jobs[id].row : id \in DOMAIN jobs }
    \cup { mainq[i].row : i \in LoadedCalls }
\* the rows whose job has completed and whose completion was delivered
DeliveredRows ==
    { req[id].row : id \in
        { d \in DOMAIN req : /\ req[d].starts = 1
                             /\ d \notin DOMAIN jobs
                             /\ \A i \in LoadedCalls : mainq[i].id # d } }
\* the icon of a row once its thumbnail was generated from the source
OwnIcon(files, row) ==
    LET path == RowPath(files, row)
        image == generate(path, FileType(path))
    IN  IF image.null THEN FileIcon(path) ELSE ThumbIcon(image)

\* C21: while the data set is not reset, icon_cache is a function of the set
\* of delivered completions alone, not of their order: a row whose completion
\* was delivered has the icon of its own file, a row whose request is still
\* on its way has the loading placeholder, and no other row has an entry.
IconCacheIndependentOfOrder ==
    resets = 0 =>
        /\ DeliveredRows \cap BusyRows = {}
        /\ icon_cache =
              [row \in DeliveredRows \cup BusyRows |->
                  IF row \in DeliveredRows THEN OwnIcon(media_files, row)
                  ELSE LoadingIcon]

\* C21 witness: the completion of a later dispatched job was delivered while
\* the job dispatched first is still running.
OutOfOrderDeliveryWitness ==
    /\ resets = 0
    /\ DeliveredRows # {}
    /\ \E id \in DOMAIN jobs : jobs[id].ord = 1 /\ jobs[id].pc = "save"

\* C22: the cache file of a job is named by its path alone.  Different paths
\* have different file names, and every stored entry lies under the name of
\* the path it was made from; a job finds the entry of its path whenever one
\* was stored when it began, whatever row or kind it or the job that stored
\* the entry has and however the source was rewritten since, and it is then
\* given that entry and writes nothing.
KeyIsPathAlone ==
    /\ \A p \in AllPaths : \A q \in AllPaths :
          p # q => cache_path(p) # cache_path(q)
    /\ \A f \in CacheFiles :
          cache[f] # NoEntry =>
              cache[f].src \in AllPaths /\ f = cache_path(cache[f].src)
    /\ \A id \in DOMAIN jobs :
          PastLookup(jobs[id]) =>
             /\ jobs[id].hit = jobs[id].late
             /\ jobs[id].hit =>
                   /\ jobs[id].image.src = jobs[id].path
                   /\ jobs[id].image.jpeg
                   /\ jobs[id].saved = 0

\* C22 witness: a job that lists the file as a video at one row is given the
\* entry stored by a job that listed it as an image at another row, although
\* the source was rewritten after the entry was made.
StaleEntrySharedWitness ==
    \E a \in DOMAIN jobs : \E b \in DOMAIN jobs :
        /\ jobs[a].path = jobs[b].path
        /\ jobs[a].row # jobs[b].row
        /\ jobs[a].type = "image" /\ jobs[b].type = "video"
        /\ jobs[a].saved = 1
        /\ jobs[b].hit
        /\ jobs[b].image = JpegEncoded(jobs[a].image)
        /\ jobs[b].image.rev # sources[jobs[b].path]

\* the requests issued for the row of request id after it
LaterRequests(id) ==
    { n \in DOMAIN req : n > id /\ req[n].row = req[id].row }

\* C23 (as claimed): once a request was dropped as not visible, its row has
\* no entry in icon_cache until the row is requested again, so that the next
\* render of the row issues a new request.
DroppedRowRequestedAnew ==
    \A id \in DOMAIN req :
        (req[id].cancels = 1 /\ LaterRequests(id) = {}) =>
            req[id].row \notin DOMAIN icon_cache

\* the step of a drop: the placeholder of every dropped row is gone after
\* it, and schedule() went on until the stack was empty or the pool full
DropRemovesPlaceholder ==
    [][ DroppedNow # {} =>
          /\ \A id \in DroppedNow : req'[id].row \notin DOMAIN icon_cache'
          /\ pending_tasks' = << >> \/ active_tasks' = max_workers ]_vars

\* without a reset the dropped row stays requestable
DroppedRowRequestedAnewNoReset == resets = 0 => DroppedRowRequestedAnew

DeliveredNow ==
    { mainq[i].id : i \in LoadedCalls } \ { mainq'[i].id : i \in LoadedCalls' }

NavigationStepsByOne ==
    /\ (viewer.op = "next" /\ viewer.before < Len(viewer.media_list) - 1)
         => viewer.current_index = viewer.before + 1
    /\ (viewer.op = "prev" /\ viewer.before > 0)
         => viewer.current_index = viewer.before - 1

\* ... which holds as long as the file to go to exists
NavigationStepsByOneIfPresent ==
    (\A i \in DOMAIN viewer.media_list : viewer.media_list[i] # "missing")
        => NavigationStepsByOne

\* the path lies inside the folder: it begins with the folder's path
\* followed by a path separator
Inside(os, file_path, folder_path) ==
    LET prefix == normpath(os, folder_path) \o << Sep(os) >>
    IN  /\ Len(file_path) > Len(prefix)
        /\ SubSeq(file_path, 1, Len(prefix)) = prefix

\* C26 (as claimed): remove_media_in_folder(F) deletes exactly the entries
\* whose path lies inside F and returns their number; every other entry
\* stays.
RemovesExactlyFolder ==
    library.op = "remove" =>
        LET inside == { file_path \in library.before :
                          Inside(library.os, file_path, library.folder) }
        IN  /\ library.table = library.before \ inside
            /\ library.deleted_count = Cardinality(inside)

\* ... which holds for a folder whose name has no '_', when no stored path
\* differs from another one by case only
RemovesExactlyFolderPlainNames ==
    ( /\ \A i \in DOMAIN library.folder : library.folder[i] # "_"
      /\ \A file_path \in library.before :
            \A i \in DOMAIN file_path : file_path[i] # "V" )
    => RemovesExactlyFolder

\* C27: for a video source at most 5 frames are read, the result is
\* non-empty exactly when one of the reads made gave a valid frame, that
\* frame is the earliest valid one of the source and the last one read; so
\* when no read raises, the result is non-empty exactly when one of the
\* first 5 frames of the source is valid.
VideoThumbFromEarliestValidFrame ==
    (decoder.pc = "done" /\ decoder.kind = "video") =>
        /\ decoder.reads <= frame_attempts
        /\ ~decoder.null <=>
              \E i \in 1 .. decoder.reads : FrameAt(decoder.frames, i) = "ok"
        /\ ~decoder.null =>
              /\ FrameAt(decoder.frames, decoder.reads) = "ok"
              /\ \A j \in 1 .. (decoder.reads - 1) :
                    FrameAt(decoder.frames, j) # "ok"
              /\ decoder.saves = 1
        /\ ( /\ decoder.cv2 /\ decoder.opens
             /\ \A i \in 1 .. frame_attempts :
                   FrameAt(decoder.frames, i) # "raise" )
           => (~decoder.null <=>
                 \E i \in 1 .. frame_attempts :
                     FrameAt(decoder.frames, i) = "ok")

\* C27 witness: the second frame is the first valid one; the thumbnail is
\* made of it and the valid third frame is not read.
SecondFrameUsedWitness ==
    /\ decoder.pc = "done" /\ decoder.kind = "video"
    /\ Len(decoder.frames) >= 3
    /\ decoder.frames[1] = "empty"
    /\ decoder.frames[2] = "ok"
    /\ decoder.frames[3] = "ok"
    /\ ~decoder.null
    /\ decoder.reads = 2

\* a runnable whose path has a complete cache entry: now, for one that waits
\* in the pool's queue, or when its run() began
CachedJob(id) ==
    IF jobs[id].pc = "queued"
    THEN EntryKind(cache_dir, cache[cache_path(jobs[id].path)]) = "complete"
    ELSE jobs[id].late \/ jobs[id].hit

\* C28: a request whose path has a valid cache entry is a runnable of the
\* pool like any other: it was popped and handed to start_task once, and
\* active_tasks counts every runnable, cached or not, from its dispatch
\* until its queued _on_thumbnail_finished has run.
CachedRequestAccounted ==
    /\ active_tasks =
          Cardinality({ id \in DOMAIN jobs : jobs[id].emitted = 0 })
          + Cardinality(FinishedCalls)
    /\ \A id \in DOMAIN jobs :
          CachedJob(id) =>
             /\ req[id].pops = 1 /\ req[id].starts = 1
             /\ jobs[id].pc # "queued" => id \in Running(jobs)
             /\ active_tasks >= 1 \/ jobs[id].pc = "emit2"

\* C28 witness: a job served from the cache has not yet emitted, and with
\* it the pool is full while a request waits on the stack.
CachedJobHoldsSlotWitness ==
    /\ active_tasks = max_workers
    /\ pending_tasks # << >>
    /\ \E id \in DOMAIN jobs :
          jobs[id].hit /\ jobs[id].late /\ jobs[id].pc = "emit"

\* C29 (as claimed): when the admission run by a completion dispatches or
\* drops a request, the result of that completion has already been
\* delivered to the display layer.
DeliveryPrecedesAdmission ==
    [][ (FinishedNow = 1 /\ (StartedNow > 0 \/ DroppedNow # {})) =>
          /\ Head(mainq).id \notin DOMAIN jobs
          /\ \A j \in LoadedCalls : mainq[j].id # Head(mainq).id ]_vars

\* C29 (amended): admission comes first.  As long as the
\* _on_thumbnail_finished of a completion has not run, its
\* on_thumbnail_loaded has not run either: it is not yet posted, or queued
\* behind it.
AdmissionPrecedesDelivery ==
    \A i \in FinishedCalls :
        \/ /\ mainq[i].id \in DOMAIN jobs
           /\ jobs[mainq[i].id].pc = "emit2"
        \/ \E j \in LoadedCalls : j > i /\ mainq[j].id = mainq[i].id

\* C29 witness: the admission run by a completion has dispatched the
\* pending request while the result of that completion still waits in the
\* event queue and its row still shows the placeholder.
DispatchedBeforeDeliveryWitness ==
    /\ \E j \in LoadedCalls :
          /\ \A i \in FinishedCalls : mainq[i].id # mainq[j].id
          /\ mainq[j].row \in DOMAIN icon_cache
          /\ icon_cache[mainq[j].row] = LoadingIcon
    /\ \E id \in DOMAIN jobs : jobs[id].ord = max_workers + 1
    /\ FinishedCalls = {}
    /\ Cardinality(DOMAIN jobs) = max_workers

\* C30: a request that is in the pending stack leaves it (dispatched,
\* dropped or cleared), whatever is pushed after it, provided the pool runs
\* its runnables and the event loop delivers the queued calls.
PendingLeaves ==
    \A id \in 1 .. MaxLiveRequests :
        (id \in PendingIds(pending_tasks)) ~> (id \notin PendingIds(pending_tasks))

\* C30 witness: a request pushed later was dispatched while an older one
\* stayed in the stack, and the older one has now been dispatched as well.
OvertakenThenServedWitness ==
    \E a \in DOMAIN req : \E b \in DOMAIN req :
        /\ a < b
        /\ a \in req[b].older
        /\ req[b].starts = 1
        /\ req[a].starts = 1


\* C31: between handlers of the coordinating thread the pending stack is
\* empty or every worker slot is taken: no request waits beside a free slot.
NoRequestWaitsOnFreeSlot ==
    pending_tasks = << >> \/ active_tasks = max_workers

\* C31 witness: after the data set was replaced a request waits, because the
\* runnables dispatched before the reset still hold every slot.
WaitsBehindStaleJobsWitness ==
    /\ resets > 0
    /\ pending_tasks # << >>
    /\ active_tasks = max_workers
    /\ \A id \in DOMAIN jobs : jobs[id].path \notin Range(media_files)


\* the requests made since the last reset of the data set
ThisEpoch == { id \in DOMAIN req : req[id].epoch = resets }

\* a request is outstanding while it is in the stack (pending) or its
\* runnable has not delivered its result to the display layer (in flight)
Outstanding(id) ==
    \/ id \in PendingIds(pending_tasks)
    \/ id \in DOMAIN jobs
    \/ \E i \in DOMAIN mainq : mainq[i].id = id

\* C32: between two resets a row has at most one request outstanding, the
\* stack holds a row at most once, and a row is requested again only after
\* its previous request was dropped.
OneRequestPerRow ==
    /\ \A a \in ThisEpoch : \A b \in ThisEpoch :
          (a < b /\ req[a].row = req[b].row) =>
              /\ ~(Outstanding(a) /\ Outstanding(b))
              /\ req[a].cancels > 0
    /\ \A i \in DOMAIN pending_tasks : \A j \in DOMAIN pending_tasks :
          pending_tasks[i].row = pending_tasks[j].row => i = j

\* C32 witness: a row whose request was dropped has been requested again,
\* and the new request is outstanding.
RequestedAgainAfterDropWitness ==
    \E a \in ThisEpoch : \E b \in ThisEpoch :
        /\ a < b
        /\ req[a].row = req[b].row
        /\ req[a].cancels > 0
        /\ Outstanding(b)


\* the runnables that were dispatched and whose completion
\* _on_thumbnail_finished has not yet handled: those that have not emitted,
\* and those whose queued call waits in the event queue
Unhandled ==
    { id \in DOMAIN jobs : jobs[id].emitted = 0 }
        \cup { mainq[i].id : i \in FinishedCalls }

\* C33: active_tasks is the number of dispatched jobs whose completion has
\* not been handled, and so never negative, also across resets.
ActiveTasksCountsUnhandled ==
    /\ active_tasks = Cardinality(Unhandled)
    /\ Cardinality(FinishedCalls) = Cardinality({ mainq[i].id : i \in FinishedCalls })
    /\ active_tasks >= 0

\* C33 witness: the data set was replaced, nothing was requested since, and
\* the runnables dispatched before still count as active.
StaleJobsStillCountedWitness ==
    /\ resets > 0
    /\ ThisEpoch = {}
    /\ active_tasks = max_workers
    /\ FinishedCalls # {}


Loading(row) == row \in DOMAIN icon_cache /\ icon_cache[row] = LoadingIcon

\* a row that shows the placeholder has a request of the current data set
\* that is pending or in flight
MarkerHasRequest ==
    \A row \in DOMAIN icon_cache :
        Loading(row) =>
            \E id \in ThisEpoch : req[id].row = row /\ Outstanding(id)

\* C34: a loading marker always has a request behind it, and, the pool and
\* the event loop running, no row shows the loading marker forever.
LoadingMarkerBacked ==
    /\ []MarkerHasRequest
    /\ \A row \in Rows(KeyData) : Loading(row) ~> ~Loading(row)

\* C34 witness: a row shows the placeholder while its request waits in the
\* stack behind the runnables of the data set shown before.
MarkerWaitsWitness ==
    \E i \in DOMAIN pending_tasks :
        /\ Loading(pending_tasks[i].row)
        /\ resets > 0
        /\ \A id \in DOMAIN jobs : req[id].epoch < resets


\* a step in which the event loop delivers the call at the head of its queue
Delivers(slot) ==
    /\ mainq # << >>
    /\ Head(mainq).slot = slot
    /\ mainq' = Tail(mainq)

\* C35: a completion for a row at or beyond the current row count changes
\* no icon and signals no dataChanged; its slot is released all the same
\* and admission runs.
OutOfRangeCompletionIgnored ==
    [][ (mainq # << >> /\ Head(mainq).row >= rowCount(media_files)) =>
          /\ Delivers("on_thumbnail_loaded") =>
                /\ icon_cache' = icon_cache
                /\ dataChanged(media_files, Head(mainq).row,
                               Head(mainq).image) = {}
          /\ Delivers("_on_thumbnail_finished") =>
                /\ active_tasks' = active_tasks - 1 + StartedNow
                /\ pending_tasks' = << >> \/ active_tasks' = max_workers ]_vars

\* C35 witness: the data set shrank, and the event loop is delivering the
\* completion of a row it no longer has: its slot has been released, a
\* request of the new data set has been dispatched, and its thumbnail is
\* next in the queue and will not be stored.
OutOfRangeCompletionWitness ==
    /\ mainq # << >>
    /\ Head(mainq).slot = "on_thumbnail_loaded"
    /\ Head(mainq).row >= rowCount(media_files)
    /\ ~Head(mainq).image.null
    /\ \A i \in FinishedCalls : mainq[i].id # Head(mainq).id
    /\ Head(mainq).id \notin DOMAIN jobs
    /\ \E n \in ThisEpoch : req[n].starts > 0


\* what a navigation call may leave as it was
SameView(v, w) ==
    /\ w.current_index = v.current_index
    /\ w.media_list = v.media_list
    /\ w.pixmap = v.pixmap
    /\ w.title = v.title
    /\ w.is_slideshow_active = v.is_slideshow_active

\* a navigation step from a valid current_index
ViewerKeepsIndexAndWraps(v, w) ==
    LET n == Len(v.media_list)
    IN  (0 <= v.current_index /\ v.current_index < n) =>
          /\ 0 <= w.current_index /\ w.current_index < n
          /\ (w.op = "next" /\ v.current_index = n - 1) =>
                IF v.is_slideshow_active THEN w.current_index = 0
                ELSE SameView(v, w)
          /\ (w.op = "prev" /\ v.current_index = 0) =>
                IF v.is_slideshow_active THEN w.current_index = n - 1
                ELSE SameView(v, w)

\* C36 (as claimed): from a valid start_index, current_index stays within
\* the media list; next_image at the last item and prev_image at the first
\* change nothing without the slideshow, and with it wrap to the first and
\* to the last item.
IndexStaysAndWraps == [][ ViewerKeepsIndexAndWraps(viewer, viewer') ]_vars

\* ... which holds as long as the file to wrap to exists
IndexStaysAndWrapsIfPresent ==
    [][ (\A i \in DOMAIN viewer.media_list : viewer.media_list[i] # "missing")
            => ViewerKeepsIndexAndWraps(viewer, viewer') ]_vars

\* ... and current_index stays within the media list in any case
IndexStays ==
    viewer.media_list # << >> =>
        /\ 0 <= viewer.current_index
        /\ viewer.current_index < Len(viewer.media_list)


\* the paths a call names that were in the table before it
NamedAndPresent(lib) ==
    { i \in DOMAIN lib.arg :
        \E k \in DOMAIN lib.was :
            lib.was[k].file_path = normpath(lib.os, lib.arg[i][1]) }

\* C37: no two rows have the same file_path; an insert leaves the rows that
\* were there as they were and returns the number of rows it added, so
\* that the same list inserted again adds nothing; add_media returns True
\* exactly when it added a row.
IndexKeepsPathsUnique ==
    /\ \A i \in DOMAIN library.rows : \A j \in DOMAIN library.rows :
          library.rows[i].file_path = library.rows[j].file_path => i = j
    /\ library.op \in {"batch_insert", "add"} =>
          /\ Len(library.rows) >= Len(library.was)
          /\ SubSeq(library.rows, 1, Len(library.was)) = library.was
          /\ Len(library.rows) - Len(library.was) =
                Cardinality({ normpath(library.os, library.arg[i][1]) :
                                 i \in DOMAIN library.arg } \
                            ({ library.was[k].file_path : k \in DOMAIN library.was }
                               \cup { p \in Spellings(library.os) :
                                        ~stat_ok(library.os, p) }))
          /\ batch_insert_media(library, library.arg).rows = library.rows
          /\ batch_insert_media(library, library.arg).returned = 0
    /\ library.op = "batch_insert" =>
          library.returned = Len(library.rows) - Len(library.was)
    /\ library.op = "add" =>
          (library.returned = 1) = (Len(library.rows) = Len(library.was) + 1)

\* C37 witness: a batch named a path that was already in the table, spelled
\* or typed differently, beside a new one: one row was added and 1 returned.
PresentPathIgnoredWitness ==
    /\ library.op = "batch_insert"
    /\ Len(library.arg) = 2
    /\ NamedAndPresent(library) = {1}
    /\ \E k \in DOMAIN library.was :
          /\ library.was[k].file_path = normpath(library.os, library.arg[1][1])
          /\ library.was[k].file_type # library.arg[1][2]
    /\ library.returned = 1


\* C38 (as claimed): once stop() has cleared _is_running, no batch is handed
\* to the database any more, and run() ends having emitted finished_scan
\* exactly once.
Stopped == ~scanner.is_running
EmitsOnce ==
    /\ scanner.finished <= 1
    /\ scanner.pc = "done" <=> scanner.finished = 1
StopEndsInsertion ==
    /\ [](scanner.late = 0 /\ EmitsOnce)
    /\ Stopped ~> scanner.pc = "done"

\* C38 (amended): once stop() has cleared _is_running, at most one more
\* batch is handed to the database, and only when the flag was cleared
\* between a read of the flag that let run() go on (line 48 or line 71) and
\* the insertion that follows it; what is in the buffer after that is never
\* inserted, and run() ends having emitted finished_scan exactly once.
InHand == { "found", "batch", "insert" }
AtMostTheBatchInHand ==
    /\ scanner.late <= 1
    /\ scanner.late = 1 => scanner.at_stop \in InHand
    /\ Stopped /\ scanner.pc \in InHand => scanner.at_stop \in InHand
StopEndsScan ==
    /\ [](AtMostTheBatchInHand /\ EmitsOnce)
    /\ Stopped ~> scanner.pc = "done"

\* C38 witness: run() has ended after a stop, and the last batch, which
\* added rows to the index, was inserted while the flag was clear.
LateBatchWitness ==
    /\ scanner.pc = "done"
    /\ Stopped
    /\ scanner.late = 1
    /\ scanner.finished = 1
    /\ library.rows # library.was

====
